---- MODULE Spec2Model ----
(***************************************************************************)
(* Debate orchestration core of AI-Council: the moderator's debate state   *)
(* machine (grok_agent.py), the arbiter's arbitration engine               *)
(* (claude_agent.py) and the agent runtime they share (base_agent.py).     *)
(*                                                                         *)
(* Conventions.  Confidences and similarities are in hundredths (0.25 is    *)
(* 25).  Time is in seconds.  A Python dict.get(k, default) on a missing    *)
(* key is modelled with the value Absent and an explicit default.  Texts    *)
(* (a response's content) are the sets of their lower-cased words, which    *)
(* is all _text_similarity reads.  The text of "message", "log" and         *)
(* "timestamp" fields of signals is not modelled.                           *)
(***************************************************************************)
EXTENDS Integers, Sequences, FiniteSets, TLC

VARIABLES
    state_idx,              \* DebateStateMachine.state_idx
    current_speaker_idx,    \* DebateStateMachine.current_speaker_idx
    turns_since_progress,   \* DebateStateMachine.turns_since_progress
    history,                \* GrokAgent.history
    redis_keys,             \* keyed slots debate_state / current_speaker
    grok_pubsub,            \* messages delivered to the moderator's pubsub, oldest first
    active_debates,         \* ClaudeAgent.active_debates, in insertion order
    claude_pubsub,          \* messages delivered to the arbiter's pubsub, oldest first
    now,                    \* datetime.utcnow(), seconds since start
    timer_due,              \* when the sleep of _timeout_monitor ends
    sent,                   \* messages published by the environment so far
    out,                    \* what the last step emitted (stream sends and bus publishes)
    last,                   \* which operation the last step was
    last_phase_tag,         \* phase tag of the latest phase-tagged signal of the moderator
    reset_pending,          \* a timeout / kill-switch reset happened since that signal
    outcome_for,            \* debates a terminal arbitration outcome was published for
    timeout_emitted,        \* a timeout moderation signal was emitted
    redis_cache,            \* the keys cache:<agent>:<hash> of the keyed store
    api_calls,              \* calls of call_claude_api / call_gpt_api so far
    call,                   \* the latest such call: who, what, when, result, POSTs made
    prev_call,              \* the call before it
    config,                 \* the dict CONFIG as the arbiter's process sees it
    agent_state,            \* BaseAgent.start of the moderator: running, or over
    running,                \* the task the event loop is executing
    ready,                  \* the tasks ready to run, in the loop's order
    wake,                   \* when each task's asyncio.sleep ends (NoNumber: not asleep)
    entered,                \* the tasks whose coroutine has begun to execute
    heartbeat_key,          \* the key grok_heartbeat of the keyed store
    listener_errors,        \* exceptions the listener caught and logged
    gpt_pubsub,             \* messages delivered to the refiner's pubsub, oldest first
    gpt_published           \* envelopes the refiner published on the responses topic

vars == << state_idx, current_speaker_idx, turns_since_progress, history, redis_keys,
           grok_pubsub, active_debates, claude_pubsub, now, timer_due, sent, out, last,
           last_phase_tag, reset_pending, outcome_for, timeout_emitted,
           redis_cache, api_calls, call, prev_call, config,
           agent_state, running, ready, wake, entered, heartbeat_key, listener_errors,
           gpt_pubsub, gpt_published >>

dsm_vars == << state_idx, current_speaker_idx, turns_since_progress >>
mod_vars == << state_idx, current_speaker_idx, turns_since_progress, history, redis_keys,
               grok_pubsub, last_phase_tag, reset_pending >>
arb_vars == << active_debates, claude_pubsub, outcome_for, config >>
api_vars == << redis_cache, api_calls, call, prev_call >>
rt_vars  == << agent_state, running, ready, wake, entered, heartbeat_key,
               listener_errors >>
gpt_vars == << gpt_pubsub, gpt_published >>

---------------------------------------------------------------------------
(* Bounds of the model *)

\* messages the environment (responders, peers) publishes to the arbiter in one run
MaxSent == 3
\* the same, in the runs with several debates
MaxManySent == 5
\* the same, in the runs that arbitrate the rounds of one debate
MaxRoundSent == 3
\* messages the environment publishes to the moderator in one run
MaxModSent == 6
\* messages a pubsub holds undelivered
MaxQueue == 1
\* the clock stops here
MaxTime == 32
\* seconds the clock advances in one step
TickStep == 16
\* largest stagnation counter the harness of the state machine drives it to
MaxStagnation == 4
\* calls of the model-call wrappers in one run
MaxCalls == 2
\* seconds between two model calls, and where the clock of those runs stops
CacheTickStep == 200
MaxCacheTime == 400
\* messages the environment publishes to the refiner in one run
MaxRefinerSent == 3
\* messages the environment publishes to the moderator in a run of its tasks
MaxTaskSent == 2
\* where the clock of those runs stops
MaxTaskTime == 12

(* Configuration (base_agent.py CONFIG) *)

DEBATE_TIMEOUT == 30
\* MAX_HISTORY_SIZE is read from the environment (default 10); the model runs
\* the configuration MAX_HISTORY_SIZE=2
MAX_HISTORY_SIZE == 2
ENABLE_DEADLOCK_DETECTION == TRUE
CONFIDENCE_THRESHOLD == 25
CONSENSUS_THRESHOLD == 15
MIN_DEBATE_ROUNDS == 2
MAX_DEBATE_ROUNDS == 4
\* the number of responses process_response waits for ("assuming 3")
EXPECTED_RESPONSES == 3
\* defaults of response.get("round", ...) and response.get("confidence", ...)
DEFAULT_ROUND == 0
DEFAULT_CONFIDENCE == 70

CACHING_ENABLED == TRUE
CACHE_TTL == 300
\* max_retries of call_claude_api
MAX_RETRIES == 3
\* the expiry call_gpt_api stores with (ex=3600)
GPT_CACHE_TTL == 3600
\* seconds between two heartbeats, and the expiry of the heartbeat key
HEARTBEAT_INTERVAL == 10
HEARTBEAT_EXPIRY == 15
\* pubsub.get_message(timeout=1.0), and the asyncio.sleep(1) after a caught exception
POLL_TIMEOUT == 1
ERROR_BACKOFF == 1

REDIS_CHANNEL_MOD == "moderation_channel"
REDIS_CHANNEL_RES == "responses_channel"
REDIS_CHANNEL_ARB == "arbitration_channel"
WS == "ws"

Absent == "<absent>"
NoNumber == 0 - 1

\* the thresholds of CONFIG at start-up
StartupConfig ==
    [ CONFIDENCE_THRESHOLD |-> CONFIDENCE_THRESHOLD,
      CONSENSUS_THRESHOLD |-> CONSENSUS_THRESHOLD,
      MIN_DEBATE_ROUNDS |-> MIN_DEBATE_ROUNDS,
      MAX_DEBATE_ROUNDS |-> MAX_DEBATE_ROUNDS ]

\* the coroutines BaseAgent.start hands to asyncio.gather, in its order
Tasks == << "_listen_responses", "_heartbeat", "_timeout_monitor" >>
TaskNames == { Tasks[i] : i \in 1..Len(Tasks) }
\* the event loop is between two tasks
Idle == "<idle>"

---------------------------------------------------------------------------
(* Messages: one record shape for stream frames and bus payloads *)

Blank ==
    [ ch |-> Absent, wrapped |-> FALSE, state |-> Absent, speaker |-> Absent,
      flag |-> Absent, action |-> Absent, status |-> Absent, agent |-> Absent,
      debate_id |-> Absent, round |-> NoNumber, next_round |-> NoNumber,
      content |-> {}, has_content |-> FALSE, confidence |-> NoNumber,
      winning_agent |-> Absent, contributing_agents |-> << >>,
      dissenting_view |-> << >>, decodes |-> TRUE, round_hashable |-> TRUE ]

\* BaseAgent._generate_signal: state, speaker and flag (None when not given)
_generate_signal(state, speaker, flag) ==
    [Blank EXCEPT !.state = state, !.speaker = speaker, !.flag = flag]

On(ch, m) == [m EXCEPT !.ch = ch]

\* the messages of a step that were published on a bus topic
Published(msgs, ch) == SelectSeq(msgs, LAMBDA m : m.ch = ch)

NoOp == [op |-> "init", by |-> Absent, debate_id |-> Absent, round |-> NoNumber,
         raised |-> FALSE, state |-> Absent, after_reset |-> FALSE,
         response |-> << >>, arbitration |-> Absent, evicted |-> {}, flag |-> Absent]

---------------------------------------------------------------------------
(* Response cache: keys and serialisation (call_claude_api, call_gpt_api) *)

\* the message lists a model call is made with
Requests == {"q1", "q2"}
\* the decoded JSON bodies of successful model responses
Bodies == {"b1", "b2"}

\* json.dumps and json.loads, on message lists and on decoded bodies
Dumps(x) == << "json", x >>
Loads(text) == text[2]

\* str(hash(text)) within one process
Hash(text) == << "hash", text >>

\* f"cache:{self.agent_name}:{query_hash}"
cache_key(agent_name, messages) == << "cache", agent_name, Hash(Dumps(messages)) >>

CacheKeys == { cache_key(a, q) : a \in {"Claude", "GPT-4o"}, q \in Requests }

\* a key that was never set: no serialised text, and for the heartbeat no value
NoText == << >>
NoEntry == [value |-> NoText, expires |-> 0]
NoBeat == [value |-> Absent, expires |-> 0]

\* redis_client.get(key): None once the expiry has passed
RedisGet(cache, key, t) ==
    IF cache[key].value # NoText /\ t < cache[key].expires
    THEN cache[key].value ELSE Absent

\* redis_client.set(key, value, ex=ttl)
RedisSetEx(cache, key, value, ttl, t) ==
    [cache EXCEPT ![key] = [value |-> value, expires |-> t + ttl]]

\* "if cached_response:" on what get returned
Truthy(text) == text # Absent /\ text # ""

NoResult == "None"
Raised == "raised"

NoCall == [by |-> Absent, request |-> Absent, at |-> 0, result |-> Absent,
           posts |-> 0, hit |-> FALSE, waits |-> << >>, statuses |-> << >>]

---------------------------------------------------------------------------
(* Debate state machine (grok_agent.py, class DebateStateMachine) *)

states == << "propose", "critique", "refine", "conclude" >>
speakers == << "Grok", "Claude", "GPT" >>

Phases == { states[i] : i \in 1..Len(states) }

current_state(idx) == states[idx + 1]
current_speaker(idx) == speakers[idx + 1]

Min(a, b) == IF a < b THEN a ELSE b

_rotate_speaker(idx) == (idx + 1) % Len(speakers)

\* state_idx after next_turn
NextTurnPhaseClamped(idx) == Min(idx + 1, Len(states) - 1)
NextTurnPhaseSkips(idx) == (idx + 2) % Len(states)
NextTurnPhase(idx) == (idx + 1) % Len(states)

\* current_speaker_idx after next_turn
NextTurnSpeakerStays(idx) == idx
NextTurnSpeaker(idx) == _rotate_speaker(idx)

\* turns_since_progress after next_turn, from the new state_idx
NextTurnStagnation(new_idx, tsp) == IF new_idx > 0 THEN 0 ELSE tsp + 1

\* the signal next_turn publishes on the moderation topic
NextTurnSignal(new_idx, new_speaker) ==
    On(REDIS_CHANNEL_MOD,
       [Blank EXCEPT !.state = current_state(new_idx),
                     !.speaker = current_speaker(new_speaker),
                     !.action = "next_turn"])

\* state_idx after handle_loop
HandleLoopPhase(idx) == Min(idx + 1, Len(states) - 1)

handle_loop_signal == [Blank EXCEPT !.flag = "loop_detected"]
kill_switch_signal == [Blank EXCEPT !.flag = "kill_switch"]

detect_deadlock(tsp) == tsp >= 3

\* detect_loop: False below two entries; otherwise it reads self.sentence_model,
\* which DebateStateMachine.__init__ never sets (GrokAgent sets its own
\* attribute of that name), so the call raises AttributeError.
detect_loop(hist) == IF Len(hist) < 2 THEN "False" ELSE "AttributeError"

---------------------------------------------------------------------------
(* The state machine driven through its methods, as grok_tests.py drives it *)

Op(name) == [NoOp EXCEPT !.op = name, !.by = "Grok"]

\* DebateStateMachine.next_turn
DsmNextTurn ==
    LET idx == NextTurnPhase(state_idx)
        spk == NextTurnSpeaker(current_speaker_idx)
        tsp == NextTurnStagnation(idx, turns_since_progress)
    IN  /\ tsp <= MaxStagnation
        /\ state_idx' = idx
        /\ current_speaker_idx' = spk
        /\ turns_since_progress' = tsp
        /\ redis_keys' = [debate_state |-> current_state(idx),
                          current_speaker |-> current_speaker(spk)]
        /\ out' = << NextTurnSignal(idx, spk) >>
        /\ last' = Op("next_turn")
        /\ UNCHANGED << history, grok_pubsub, last_phase_tag, reset_pending >>
        /\ UNCHANGED << arb_vars, now, timer_due, sent, timeout_emitted, api_vars, rt_vars, gpt_vars >>

\* DebateStateMachine.handle_loop
DsmHandleLoop ==
    /\ state_idx' = HandleLoopPhase(state_idx)
    /\ out' = << >>
    /\ last' = Op("handle_loop")
    /\ UNCHANGED << current_speaker_idx, turns_since_progress, history, redis_keys,
                    grok_pubsub, last_phase_tag, reset_pending >>
    /\ UNCHANGED << arb_vars, now, timer_due, sent, timeout_emitted, api_vars, rt_vars, gpt_vars >>

\* DebateStateMachine.kill_switch
DsmKillSwitch ==
    /\ state_idx' = 0
    /\ turns_since_progress' = 0
    /\ out' = << >>
    /\ last' = Op("kill_switch")
    /\ UNCHANGED << current_speaker_idx, history, redis_keys,
                    grok_pubsub, last_phase_tag, reset_pending >>
    /\ UNCHANGED << arb_vars, now, timer_due, sent, timeout_emitted, api_vars, rt_vars, gpt_vars >>

\* the reset of GrokAgent.process_moderation on state "timeout"
DsmTimeoutReset ==
    /\ state_idx' = 0
    /\ history' = << >>
    /\ out' = << >>
    /\ last' = Op("timeout_reset")
    /\ UNCHANGED << current_speaker_idx, turns_since_progress, redis_keys,
                    grok_pubsub, last_phase_tag, reset_pending >>
    /\ UNCHANGED << arb_vars, now, timer_due, sent, timeout_emitted, api_vars, rt_vars, gpt_vars >>

Init ==
    /\ state_idx = 0
    /\ current_speaker_idx = 0
    /\ turns_since_progress = 0
    /\ history = << >>
    /\ redis_keys = [debate_state |-> Absent, current_speaker |-> Absent]
    /\ grok_pubsub = << >>
    /\ active_debates = << >>
    /\ claude_pubsub = << >>
    /\ now = 0
    /\ timer_due = DEBATE_TIMEOUT
    /\ sent = 0
    /\ out = << >>
    /\ last = NoOp
    /\ last_phase_tag = Absent
    /\ reset_pending = FALSE
    /\ outcome_for = {}
    /\ timeout_emitted = FALSE
    /\ redis_cache = [k \in CacheKeys |-> NoEntry]
    /\ api_calls = 0
    /\ call = NoCall
    /\ prev_call = NoCall
    /\ config = StartupConfig
    /\ agent_state = "running"
    /\ running = Idle
    /\ ready = Tasks
    /\ wake = [t \in TaskNames |-> NoNumber]
    /\ entered = {}
    /\ heartbeat_key = NoBeat
    /\ listener_errors = 0
    /\ gpt_pubsub = << >>
    /\ gpt_published = 0

NextDSM == DsmNextTurn \/ DsmHandleLoop \/ DsmKillSwitch \/ DsmTimeoutReset

SpecDSM == Init /\ [][NextDSM]_vars

---------------------------------------------------------------------------
(* The moderator at run time (GrokAgent under BaseAgent.start) *)

Last(seq) == seq[Len(seq)]

\* the phase tags a step's signals carry, in emission order
PhaseTags(msgs) ==
    LET tagged == SelectSeq(msgs, LAMBDA m : m.state \in Phases)
    IN  [i \in 1..Len(tagged) |-> tagged[i].state]

\* history after process_response appends the content (FIFO, capacity MAX_HISTORY_SIZE)
AppendHistoryKeepOldest(hist, content) ==
    LET h == Append(hist, content)
    IN  IF Len(h) > MAX_HISTORY_SIZE THEN SubSeq(h, 1, MAX_HISTORY_SIZE) ELSE h
AppendHistory(hist, content) ==
    LET h == Append(hist, content)
    IN  IF Len(h) > MAX_HISTORY_SIZE THEN Tail(h) ELSE h

\* the keyed slots next_turn writes
NextTurnKeys(idx, spk) ==
    [debate_state |-> current_state(idx), current_speaker |-> current_speaker(spk)]

\* bookkeeping of the emitted phase tags, after a step that emitted msgs
TrackTags(msgs, reset) ==
    LET tags == PhaseTags(msgs)
    IN  /\ last_phase_tag' = IF tags = << >> THEN last_phase_tag ELSE Last(tags)
        /\ reset_pending' = IF reset THEN TRUE
                            ELSE IF tags = << >> THEN reset_pending ELSE FALSE

\* GrokAgent.process_response(response, agent, ws); rest is the pubsub after
\* the message was taken.  A payload without a "response" object reaches it
\* as the string "" (the default of data.get), on which .get raises.
GrokProcessResponse(msg, rest) ==
    IF ~msg.wrapped
    THEN /\ out' = << >>
         /\ last' = [Op("process_response") EXCEPT !.raised = TRUE]
         /\ grok_pubsub' = rest
         /\ UNCHANGED << dsm_vars, history, redis_keys, last_phase_tag, reset_pending >>
    ELSE
    LET content == IF msg.has_content THEN msg.content ELSE {}
        hist    == AppendHistory(history, content)
        popped  == IF Len(hist) <= Len(history) THEN { history[1] } ELSE {}
        signal  == On(WS, _generate_signal(current_state(state_idx),
                                           current_speaker(current_speaker_idx), "None"))
        loop    == detect_loop(hist)
        idx     == NextTurnPhase(state_idx)
        spk     == NextTurnSpeaker(current_speaker_idx)
        turn    == << signal, NextTurnSignal(idx, spk),
                      On(WS, _generate_signal(current_state(idx), current_speaker(spk),
                                              "None")) >>
        looped  == << signal, On(WS, handle_loop_signal),
                      On(REDIS_CHANNEL_MOD, handle_loop_signal) >>
        killed  == << signal, On(WS, kill_switch_signal),
                      On(REDIS_CHANNEL_MOD, kill_switch_signal) >>
    IN  /\ history' = hist
        /\ CASE loop = "AttributeError" ->
                  /\ out' = << signal >>
                  /\ last' = [Op("process_response") EXCEPT !.raised = TRUE,
                                                            !.after_reset = reset_pending,
                                                            !.evicted = popped]
                  /\ grok_pubsub' = rest
                  /\ TrackTags(<< signal >>, FALSE)
                  /\ UNCHANGED << dsm_vars, redis_keys >>
             [] loop = "True" ->
                  /\ state_idx' = HandleLoopPhase(state_idx)
                  /\ out' = looped
                  /\ last' = [Op("handle_loop") EXCEPT !.after_reset = reset_pending,
                                                          !.evicted = popped]
                  /\ grok_pubsub' = rest \o Published(looped, REDIS_CHANNEL_MOD)
                  /\ TrackTags(looped, FALSE)
                  /\ UNCHANGED << current_speaker_idx, turns_since_progress, redis_keys >>
             [] loop = "False" /\ ENABLE_DEADLOCK_DETECTION
                               /\ detect_deadlock(turns_since_progress) ->
                  /\ state_idx' = 0
                  /\ turns_since_progress' = 0
                  /\ out' = killed
                  /\ last' = [Op("kill_switch") EXCEPT !.after_reset = reset_pending,
                                                          !.evicted = popped]
                  /\ grok_pubsub' = rest \o Published(killed, REDIS_CHANNEL_MOD)
                  /\ TrackTags(killed, TRUE)
                  /\ UNCHANGED << current_speaker_idx, redis_keys >>
             [] OTHER ->
                  /\ state_idx' = idx
                  /\ current_speaker_idx' = spk
                  /\ turns_since_progress' = NextTurnStagnation(idx, turns_since_progress)
                  /\ redis_keys' = NextTurnKeys(idx, spk)
                  /\ out' = turn
                  /\ last' = [Op("next_turn") EXCEPT !.after_reset = reset_pending,
                                                        !.evicted = popped]
                  /\ grok_pubsub' = rest \o Published(turn, REDIS_CHANNEL_MOD)
                  /\ TrackTags(turn, FALSE)

\* GrokAgent.process_moderation(state, data, ws)
GrokProcessModeration(state, rest) ==
    /\ out' = << >>
    /\ last' = [Op("process_moderation") EXCEPT !.state = state]
    /\ grok_pubsub' = rest
    /\ CASE state = "continue" ->
              /\ history' = << >>
              /\ UNCHANGED << dsm_vars, redis_keys, last_phase_tag, reset_pending >>
         [] state = "timeout" ->
              /\ state_idx' = 0
              /\ history' = << >>
              /\ TrackTags(<< >>, TRUE)
              /\ UNCHANGED << current_speaker_idx, turns_since_progress, redis_keys >>
         [] OTHER ->
              UNCHANGED << dsm_vars, history, redis_keys, last_phase_tag, reset_pending >>

\* One turn of BaseAgent._listen_responses in the moderator: take a message,
\* decode it and route it by its channel.
GrokListen ==
    /\ grok_pubsub # << >>
    /\ LET msg  == Head(grok_pubsub)
           rest == Tail(grok_pubsub)
       IN  /\ CASE msg.ch = REDIS_CHANNEL_RES -> GrokProcessResponse(msg, rest)
                [] msg.ch = REDIS_CHANNEL_MOD /\ msg.state # Absent ->
                     GrokProcessModeration(msg.state, rest)
                [] OTHER ->
                     /\ out' = << >>
                     /\ last' = Op("dropped")
                     /\ grok_pubsub' = rest
                     /\ UNCHANGED << dsm_vars, history, redis_keys, last_phase_tag,
                                     reset_pending >>
           /\ Len(grok_pubsub') <= MaxQueue
    /\ UNCHANGED << arb_vars, now, timer_due, sent, timeout_emitted, api_vars, rt_vars, gpt_vars >>

\* the signal of BaseAgent._timeout_monitor
TimeoutSignal(agent_name) == _generate_signal("timeout", agent_name, "timeout")

\* BaseAgent._timeout_monitor of the moderator: after each sleep of
\* DEBATE_TIMEOUT seconds, send the timeout signal on the stream and publish it.
GrokTimeoutMonitor ==
    /\ now >= timer_due
    /\ Len(grok_pubsub) < MaxQueue
    /\ timer_due' = now + DEBATE_TIMEOUT
    /\ out' = << On(WS, TimeoutSignal("Grok")), On(REDIS_CHANNEL_MOD, TimeoutSignal("Grok")) >>
    /\ last' = Op("timeout_monitor")
    /\ grok_pubsub' = Append(grok_pubsub, On(REDIS_CHANNEL_MOD, TimeoutSignal("Grok")))
    /\ timeout_emitted' = TRUE
    /\ UNCHANGED << dsm_vars, history, redis_keys, last_phase_tag, reset_pending >>
    /\ UNCHANGED << arb_vars, now, sent, api_vars, rt_vars, gpt_vars >>

\* the clock
Tick ==
    /\ now < MaxTime
    /\ now' = now + TickStep
    /\ out' = << >>
    /\ last' = [NoOp EXCEPT !.op = "tick"]
    /\ UNCHANGED << mod_vars, arb_vars, timer_due, sent, timeout_emitted, api_vars, rt_vars, gpt_vars >>

\* contents of the responses the environment sends
Contents == { {"yes"}, {"no"} }

\* what responders publish on the responses topic, as the moderator reads it:
\* {"response": {...}, "agent": ...}, or a bare envelope (the refiner's shape)
ModResponses ==
    { [Blank EXCEPT !.ch = REDIS_CHANNEL_RES, !.wrapped = TRUE, !.agent = "GPT",
                    !.content = c, !.has_content = TRUE] : c \in Contents }
    \cup { [Blank EXCEPT !.ch = REDIS_CHANNEL_RES, !.agent = "GPT-4o",
                         !.content = {"yes"}, !.has_content = TRUE] }

\* what peers publish on the moderation topic: the arbiter's continue record
\* (it has a status and no state), and a continue message in the shape
\* GrokAgent.process_moderation reads (a state and a next_round)
ModPeerSignals ==
    { [Blank EXCEPT !.ch = REDIS_CHANNEL_MOD, !.status = "continue",
                    !.debate_id = "default", !.round = 0, !.next_round = 1],
      [Blank EXCEPT !.ch = REDIS_CHANNEL_MOD, !.state = "continue", !.next_round = 1] }

EnvToModerator ==
    /\ sent < MaxModSent
    /\ Len(grok_pubsub) < MaxQueue
    /\ \E m \in ModResponses \cup ModPeerSignals :
         grok_pubsub' = Append(grok_pubsub, m)
    /\ sent' = sent + 1
    /\ out' = << >>
    /\ last' = [NoOp EXCEPT !.op = "env"]
    /\ UNCHANGED << dsm_vars, history, redis_keys, last_phase_tag, reset_pending >>
    /\ UNCHANGED << arb_vars, now, timer_due, timeout_emitted, api_vars, rt_vars, gpt_vars >>

NextMod == GrokListen \/ GrokTimeoutMonitor \/ Tick \/ EnvToModerator

SpecMod == Init /\ [][NextMod]_vars

\* responders and peers that never stop publishing to the moderator
EnvFeedsModerator ==
    /\ Len(grok_pubsub) < MaxQueue
    /\ \E m \in ModResponses \cup ModPeerSignals :
         grok_pubsub' = Append(grok_pubsub, m)
    /\ out' = << >>
    /\ last' = [NoOp EXCEPT !.op = "env"]
    /\ UNCHANGED << dsm_vars, history, redis_keys, last_phase_tag, reset_pending >>
    /\ UNCHANGED << arb_vars, now, timer_due, sent, timeout_emitted, api_vars, rt_vars, gpt_vars >>

NextModFed == GrokListen \/ EnvFeedsModerator

\* The listener keeps running and the bus keeps delivering.
SpecModFed ==
    /\ Init /\ [][NextModFed]_vars
    /\ WF_vars(GrokListen)
    /\ WF_vars(EnvFeedsModerator)

---------------------------------------------------------------------------
(* Arbitration engine (claude_agent.py, class ClaudeAgent) *)

\* active_debates is a dict; the model keeps its entries in insertion order,
\* which is the order the cleanup loop of final arbitration iterates in
Ids(ad) == { ad[i].id : i \in 1..Len(ad) }
IndexOf(ad, id) == CHOOSE i \in 1..Len(ad) : ad[i].id = id
Debate(ad, id) == ad[IndexOf(ad, id)]

NoRounds == [r \in {} |-> << >>]

\* process_response: create the debate on its first response
Track(ad, id, t) ==
    IF id \in Ids(ad) THEN ad
    ELSE Append(ad, [id |-> id, status |-> "active", start_time |-> t,
                     rounds |-> NoRounds])

\* process_response: create the round on its first response and append
AddResponseFront(ad, id, r, resp) ==
    LET i   == IndexOf(ad, id)
        old == ad[i].rounds
        new == [x \in DOMAIN old \cup {r} |->
                    IF x = r
                    THEN << resp >> \o (IF r \in DOMAIN old THEN old[r] ELSE << >>)
                    ELSE old[x]]
    IN  [ad EXCEPT ![i].rounds = new]
AddResponse(ad, id, r, resp) ==
    LET i   == IndexOf(ad, id)
        old == ad[i].rounds
        new == [x \in DOMAIN old \cup {r} |->
                    IF x = r
                    THEN Append(IF r \in DOMAIN old THEN old[r] ELSE << >>, resp)
                    ELSE old[x]]
    IN  [ad EXCEPT ![i].rounds = new]

\* the stored responses of (id, r); none when the debate or the round is not tracked
Stored(ad, id, r) ==
    IF id \in Ids(ad) /\ r \in DOMAIN Debate(ad, id).rounds
    THEN Debate(ad, id).rounds[r] ELSE << >>

\* process_response: (now - start_time).total_seconds() > DEBATE_TIMEOUT
TimedOutInverted(ad, id, t) == t - Debate(ad, id).start_time < DEBATE_TIMEOUT
TimedOut(ad, id, t) == t - Debate(ad, id).start_time > DEBATE_TIMEOUT

\* index of the first response of the highest confidence: max(responses, key=...)
FirstMax(rs) ==
    CHOOSE i \in 1..Len(rs) :
        /\ \A j \in 1..Len(rs) : rs[j].confidence <= rs[i].confidence
        /\ \A j \in 1..(i - 1) : rs[j].confidence < rs[i].confidence

Without(seq, i) == [j \in 1..(Len(seq) - 1) |-> IF j < i THEN seq[j] ELSE seq[j + 1]]

\* sorted(responses, key=confidence, reverse=True): descending and stable
SortedAsArrived(rs) == rs
RECURSIVE SortedByConfidence(_)
SortedByConfidence(rs) ==
    IF rs = << >> THEN << >>
    ELSE LET i == FirstMax(rs)
         IN  << rs[i] >> \o SortedByConfidence(Without(rs, i))

\* _text_similarity: Jaccard index of the two word sets, 0 when one is empty;
\* SimilarTexts is the comparison _check_consensus makes on it,
\* similarity > 1.0 - CONSENSUS_THRESHOLD
SimilarTexts(w1, w2) ==
    /\ w1 # {} /\ w2 # {}
    /\ 100 * Cardinality(w1 \cap w2) > (100 - CONSENSUS_THRESHOLD) * Cardinality(w1 \cup w2)

\* _check_consensus for two responses or more (self.model is None: CONFIG has
\* no "TOOLS" entry, so the word-set fallback is what runs)
similar_count(rs) ==
    Cardinality({ p \in (1..Len(rs)) \X (1..Len(rs)) :
                    p[1] < p[2] /\ SimilarTexts(rs[p[1]].content, rs[p[2]].content) })

required_similar(rs) == (Len(rs) * (Len(rs) - 1)) \div 2

\* similar_count / required_similar > 0.8
_check_consensus_lenient(rs) ==
    IF Len(rs) <= 1 THEN TRUE
    ELSE 10 * similar_count(rs) > 3 * required_similar(rs)
_check_consensus(rs) ==
    IF Len(rs) <= 1 THEN TRUE
    ELSE 10 * similar_count(rs) > 8 * required_similar(rs)

\* _check_strong_confidence: highest - second > CONFIDENCE_THRESHOLD
_check_strong_confidence_any(rs) == TRUE
_check_strong_confidence(rs) ==
    IF Len(rs) <= 1 THEN TRUE
    ELSE LET sorted == SortedByConfidence(rs)
         IN  sorted[1].confidence - sorted[2].confidence > CONFIDENCE_THRESHOLD

Agents(rs) == [i \in 1..Len(rs) |-> rs[i].agent]

ArbSignal(state, flag) == On(WS, _generate_signal(state, "Claude", flag))

Outcome(id, r, status, resp, agents) ==
    [Blank EXCEPT !.ch = REDIS_CHANNEL_ARB, !.debate_id = id, !.round = r,
                  !.status = status, !.content = resp.content, !.has_content = TRUE,
                  !.confidence = resp.confidence, !.contributing_agents = agents]

\* final arbitration: the debate is marked completed
MarkCompleted(ad, id) == [ad EXCEPT ![IndexOf(ad, id)].status = "completed"]

\* the cleanup loop: the completed debate of the earliest start_time, the
\* first such in iteration order; 0 when no debate is completed
OldestCompletedAny(ad) == IF ad = << >> THEN 0 ELSE 1
OldestCompleted(ad) ==
    LET done == { i \in 1..Len(ad) : ad[i].status = "completed" }
    IN  IF done = {} THEN 0
        ELSE CHOOSE i \in done :
                /\ \A j \in done : ad[i].start_time <= ad[j].start_time
                /\ \A j \in done : j < i => ad[j].start_time > ad[i].start_time

\* the cleanup of final arbitration; "if oldest_debate:" skips the deletion
\* also when the id found is the empty string
Cleanup(ad) ==
    IF Len(ad) > MAX_HISTORY_SIZE
    THEN LET i == OldestCompleted(ad)
         IN  IF i # 0 /\ ad[i].id # "" THEN Without(ad, i) ELSE ad
    ELSE ad

Result(ad, msgs, kind, raised) ==
    [ad |-> ad, out |-> msgs, arbitration |-> kind, raised |-> raised]

\* _perform_final_arbitration(debate_id, round_num, responses, ws);
\* sorted_responses[0] raises IndexError on an empty list
AskAnotherRound(ad, id, r, rs) ==
    Result(ad, << ArbSignal("arbitration", "continue"),
                  [Blank EXCEPT !.ch = REDIS_CHANNEL_MOD, !.debate_id = id, !.round = r,
                                !.status = "continue", !.next_round = r + 1] >>,
           "continue", FALSE)
_perform_final_arbitration(ad, id, r, rs) ==
    IF rs = << >> THEN Result(ad, << >>, "final", TRUE)
    ELSE
    LET sorted  == SortedByConfidence(rs)
        winner  == sorted[1]
        dissent == IF Len(sorted) > 1
                   THEN << [agent |-> sorted[2].agent, content |-> sorted[2].content,
                            confidence |-> sorted[2].confidence] >>
                   ELSE << >>
        result  == [Outcome(id, r, "concluded", winner, Agents(rs))
                      EXCEPT !.winning_agent = winner.agent, !.dissenting_view = dissent]
    IN  Result(Cleanup(MarkCompleted(ad, id)),
               << ArbSignal("conclude", "final_decision"), result >>, "final", FALSE)

\* the control record that asks for another round
ContinueRecordSameRound(id, r) ==
    [Blank EXCEPT !.ch = REDIS_CHANNEL_MOD, !.debate_id = id, !.round = r,
                  !.status = "continue", !.next_round = r]
ContinueRecord(id, r) ==
    [Blank EXCEPT !.ch = REDIS_CHANNEL_MOD, !.debate_id = id, !.round = r,
                  !.status = "continue", !.next_round = r + 1]

\* _perform_arbitration(debate_id, round_num, responses, ws)
_perform_arbitration(ad, id, r, rs) ==
    IF _check_consensus(rs)
    THEN Result(ad, << ArbSignal("arbitration", "consensus"),
                       Outcome(id, r, "consensus", rs[FirstMax(rs)], Agents(rs)) >>,
                "consensus", FALSE)
    ELSE IF r >= MIN_DEBATE_ROUNDS /\ _check_strong_confidence(rs)
    THEN LET top == SortedByConfidence(rs)[1]
         IN  Result(ad, << ArbSignal("arbitration", "strong_confidence"),
                           Outcome(id, r, "strong_confidence", top, << top.agent >>) >>,
                    "strong_confidence", FALSE)
    ELSE IF r >= MAX_DEBATE_ROUNDS
    THEN _perform_final_arbitration(ad, id, r, rs)
    ELSE Result(ad, << ArbSignal("arbitration", "continue"), ContinueRecord(id, r) >>,
                "continue", FALSE)

\* the entry process_response stores for a response
StoredResponse(msg) ==
    [agent |-> IF msg.agent = Absent THEN "unknown" ELSE msg.agent,
     content |-> IF msg.has_content THEN msg.content ELSE {},
     confidence |-> IF msg.confidence = NoNumber THEN DEFAULT_CONFIDENCE
                    ELSE msg.confidence]

\* data.get("debate_id") without the default: a message that names no debate
\* belongs to none
NamedDebate(msg) == msg.debate_id
\* data.get("debate_id", "default")
ResponseDebate(msg) == IF msg.debate_id = Absent THEN "default" ELSE msg.debate_id
ResponseRound(msg) == IF msg.round = NoNumber THEN DEFAULT_ROUND ELSE msg.round

\* process_response after the append: the timeout check, then the check for
\* the expected number of responses
AfterIngestOffByOne(ad, id, r, t) ==
    LET rs == Stored(ad, id, r)
    IN  IF TimedOut(ad, id, t) /\ Len(rs) > 0
        THEN _perform_final_arbitration(ad, id, r, rs)
        ELSE IF Len(rs) > EXPECTED_RESPONSES
        THEN _perform_arbitration(ad, id, r, rs)
        ELSE Result(ad, << >>, Absent, FALSE)
AfterIngest(ad, id, r, t) ==
    LET rs == Stored(ad, id, r)
    IN  IF TimedOut(ad, id, t) /\ Len(rs) > 0
        THEN _perform_final_arbitration(ad, id, r, rs)
        ELSE IF Len(rs) >= EXPECTED_RESPONSES
        THEN _perform_arbitration(ad, id, r, rs)
        ELSE Result(ad, << >>, Absent, FALSE)

\* ClaudeAgent.process_response(response, agent, ws); a "round" that is a JSON
\* array or object cannot be a dict key: `round_num not in ...["rounds"]`
\* raises TypeError after the debate has been created with no rounds
ClaudeProcessResponse(msg) ==
    IF ~msg.wrapped
    THEN Result(active_debates, << >>, Absent, TRUE)
    ELSE IF ~msg.round_hashable
    THEN Result(Track(active_debates, ResponseDebate(msg), now), << >>, Absent, TRUE)
    ELSE LET id == ResponseDebate(msg)
             r  == ResponseRound(msg)
         IN  AfterIngest(AddResponse(Track(active_debates, id, now), id, r,
                                     StoredResponse(msg)),
                         id, r, now)

Max(S) == CHOOSE x \in S : \A y \in S : y <= x

\* ClaudeAgent.process_moderation(state, data, ws)
ClaudeProcessModeration(msg) ==
    CASE msg.state = "deadlock" ->
           Result(active_debates, << ArbSignal("arbitration", "threshold_adjusted") >>,
                  Absent, FALSE)
      [] msg.state = "loop_detected" ->
           Result(active_debates, << ArbSignal("arbitration", "forcing_decision") >>,
                  Absent, FALSE)
      [] msg.state = "conclude" /\ ResponseDebate(msg) \in Ids(active_debates) ->
           LET id     == ResponseDebate(msg)
               rounds == Debate(active_debates, id).rounds
           IN  IF DOMAIN rounds = {}
               THEN Result(active_debates, << >>, "final", TRUE)
               ELSE _perform_final_arbitration(active_debates, id, Max(DOMAIN rounds),
                                               rounds[Max(DOMAIN rounds)])
      [] OTHER -> Result(active_debates, << >>, Absent, FALSE)

\* CONFIG after process_moderation: the deadlock and loop_detected branches
\* read a threshold, scale it into a local variable and write nothing back
ConfigScaledGlobally(cfg, state) ==
    CASE state = "deadlock" ->
           [cfg EXCEPT !.CONFIDENCE_THRESHOLD = (cfg.CONFIDENCE_THRESHOLD * 60) \div 100]
      [] state = "loop_detected" ->
           [cfg EXCEPT !.CONSENSUS_THRESHOLD = cfg.CONSENSUS_THRESHOLD * 2]
      [] OTHER -> cfg
ConfigAfterModeration(cfg, state) == cfg

TerminalStatus == {"consensus", "strong_confidence", "concluded"}

\* debates a step's published arbitration outcomes are for
OutcomeDebates(msgs) ==
    { msgs[i].debate_id : i \in { j \in 1..Len(msgs) :
         msgs[j].ch = REDIS_CHANNEL_ARB /\ msgs[j].status \in TerminalStatus } }

\* what a step published on the bus reaches the arbiter's own subscriptions
BusMessages(msgs) == SelectSeq(msgs, LAMBDA m : m.ch # WS)

\* One turn of BaseAgent._listen_responses in the arbiter on message msg;
\* queue is what stays undelivered.
ClaudeDispatch(msg, queue) ==
    LET res == IF msg.ch = REDIS_CHANNEL_RES THEN ClaudeProcessResponse(msg)
               ELSE IF msg.ch = REDIS_CHANNEL_MOD /\ msg.state # Absent
               THEN ClaudeProcessModeration(msg)
               ELSE Result(active_debates, << >>, Absent, FALSE)
        op  == IF msg.ch = REDIS_CHANNEL_RES THEN "process_response"
               ELSE IF msg.ch = REDIS_CHANNEL_MOD /\ msg.state # Absent
               THEN "process_moderation"
               ELSE "dropped"
    IN  /\ active_debates' = res.ad
        /\ out' = res.out
        /\ claude_pubsub' = queue \o BusMessages(res.out)
        /\ Len(claude_pubsub') <= MaxQueue
        /\ outcome_for' = outcome_for \cup OutcomeDebates(res.out)
        /\ config' = IF op = "process_moderation"
                      THEN ConfigAfterModeration(config, msg.state)
                      ELSE config
        /\ last' = [NoOp EXCEPT !.op = op, !.by = "Claude", !.raised = res.raised,
                                !.state = msg.state, !.flag = msg.flag,
                                !.debate_id = IF msg.wrapped \/ msg.state = "conclude"
                                              THEN ResponseDebate(msg) ELSE Absent,
                                !.round = IF msg.wrapped THEN ResponseRound(msg)
                                          ELSE NoNumber,
                                !.response = IF msg.wrapped THEN << StoredResponse(msg) >>
                                             ELSE << >>,
                                !.arbitration = res.arbitration,
                                !.evicted = Ids(active_debates) \ Ids(res.ad)]

DebateIds == {"default", "d1", "d2"}
Rounds == {0, MAX_DEBATE_ROUNDS}

\* what the responders put in an envelope
Answers ==
    { [agent |-> "GPT", content |-> {"yes"}, confidence |-> 95],
      [agent |-> "Grok", content |-> {"no"}, confidence |-> 60] }

\* {"response": {...}, "agent": ...} on the responses topic
Envelope(d, r, a) ==
    [Blank EXCEPT !.ch = REDIS_CHANNEL_RES, !.wrapped = TRUE, !.agent = a.agent,
                  !.debate_id = d, !.round = r, !.content = a.content,
                  !.has_content = TRUE, !.confidence = a.confidence]

\* what responders publish on the responses topic in one debate, as the
\* arbiter reads it: full envelopes, an envelope with only the agent given,
\* and a bare envelope without the "response" object (the refiner's shape)
ArbResponses ==
    { Envelope("default", r, a) : r \in Rounds, a \in Answers }
    \cup { [Blank EXCEPT !.ch = REDIS_CHANNEL_RES, !.wrapped = TRUE, !.agent = "Claude"],
           [Blank EXCEPT !.ch = REDIS_CHANNEL_RES, !.agent = "GPT-4o", !.debate_id = "d1",
                         !.round = 0, !.content = {"yes"}, !.has_content = TRUE,
                         !.confidence = 95] }

\* what peers publish on the moderation topic: the moderator's next_turn
\* signal on entering conclude (it carries no debate_id), its loop_detected
\* signal (a flag and no state), and the deadlock and loop_detected states
\* process_moderation reads
ArbPeerSignals ==
    { NextTurnSignal(3, 0),
      On(REDIS_CHANNEL_MOD, handle_loop_signal),
      [Blank EXCEPT !.ch = REDIS_CHANNEL_MOD, !.state = "loop_detected"],
      [Blank EXCEPT !.ch = REDIS_CHANNEL_MOD, !.state = "deadlock"] }

\* responses that open and feed several debates, and the conclude signal
ManyDebates ==
    { Envelope(d, 0, [agent |-> "Grok", content |-> {"no"}, confidence |-> 60]) :
        d \in DebateIds }
    \cup { NextTurnSignal(3, 0) }

\* the listener receives a message the environment published
ClaudeListenEnv(inputs, max) ==
    /\ sent < max
    /\ \E msg \in inputs : ClaudeDispatch(msg, claude_pubsub)
    /\ sent' = sent + 1
    /\ UNCHANGED << mod_vars, now, timer_due, timeout_emitted, api_vars, rt_vars, gpt_vars >>

\* one debate, every kind of message
ClaudeListens == ClaudeListenEnv(ArbResponses \cup ArbPeerSignals, MaxSent)

\* several debates
ClaudeListensMany == ClaudeListenEnv(ManyDebates, MaxManySent)

\* the listener receives a message an agent of the model published
ClaudeListenQueued ==
    /\ claude_pubsub # << >>
    /\ ClaudeDispatch(Head(claude_pubsub), Tail(claude_pubsub))
    /\ UNCHANGED << mod_vars, now, timer_due, sent, timeout_emitted, api_vars, rt_vars, gpt_vars >>

\* BaseAgent._timeout_monitor of a peer (the moderator runs it; ClaudeAgent.start
\* does not start one): the timeout signal goes out on the stream and on the
\* moderation topic, which the arbiter is subscribed to
PeerTimeoutMonitor ==
    /\ now >= timer_due
    /\ Len(claude_pubsub) < MaxQueue
    /\ timer_due' = now + DEBATE_TIMEOUT
    /\ out' = << On(WS, TimeoutSignal("Grok")), On(REDIS_CHANNEL_MOD, TimeoutSignal("Grok")) >>
    /\ last' = Op("timeout_monitor")
    /\ claude_pubsub' = Append(claude_pubsub, On(REDIS_CHANNEL_MOD, TimeoutSignal("Grok")))
    /\ timeout_emitted' = TRUE
    /\ UNCHANGED << mod_vars, active_debates, outcome_for, config, now, sent, api_vars,
                    rt_vars, gpt_vars >>

NextArb == ClaudeListens \/ ClaudeListenQueued \/ PeerTimeoutMonitor \/ Tick

SpecArb == Init /\ [][NextArb]_vars

\* The listener, the peer's timer and the clock keep running; responders and
\* peers may stay silent.
SpecArbFair ==
    /\ Init /\ [][NextArb]_vars
    /\ WF_vars(ClaudeListenQueued)
    /\ WF_vars(PeerTimeoutMonitor)
    /\ WF_vars(Tick)

NextMany == ClaudeListensMany \/ ClaudeListenQueued \/ PeerTimeoutMonitor \/ Tick

SpecMany == Init /\ [][NextMany]_vars

\* {"response": {"round": [0], ...}, "agent": ...}: an envelope whose round is
\* a JSON array
UnhashableRound(a) ==
    [Blank EXCEPT !.ch = REDIS_CHANNEL_RES, !.wrapped = TRUE, !.agent = a.agent,
                  !.content = a.content, !.has_content = TRUE,
                  !.confidence = a.confidence, !.round_hashable = FALSE]

\* what reaches the arbiter about debate "default": well-formed envelopes,
\* envelopes with an unusable round, and the moderator's conclude signal
IngestInputs ==
    { Envelope("default", r, a) : r \in Rounds, a \in Answers }
    \cup { UnhashableRound(a) : a \in Answers }
    \cup { NextTurnSignal(3, 0) }

ClaudeListensIngest == ClaudeListenEnv(IngestInputs, MaxSent)

NextIngest == ClaudeListensIngest \/ ClaudeListenQueued \/ Tick

SpecIngest == Init /\ [][NextIngest]_vars

\* rounds below, at and above MIN_DEBATE_ROUNDS and MAX_DEBATE_ROUNDS
RoundNumbers == {1, MIN_DEBATE_ROUNDS, MAX_DEBATE_ROUNDS, MAX_DEBATE_ROUNDS + 1}

\* answers that agree and disagree in content, tie and differ in confidence
RoundAnswers ==
    { [agent |-> "GPT", content |-> {"yes"}, confidence |-> 95],
      [agent |-> "Grok", content |-> {"no"}, confidence |-> 60],
      [agent |-> "Claude", content |-> {"yes"}, confidence |-> 60],
      [agent |-> "Grok", content |-> {"no"}, confidence |-> 95] }

\* the responses of the rounds of one debate, and the conclude signal
RoundResponses ==
    { Envelope("d1", r, a) : r \in RoundNumbers, a \in RoundAnswers }
    \cup { [Blank EXCEPT !.ch = REDIS_CHANNEL_MOD, !.state = "conclude",
                         !.debate_id = "d1"] }

\* the rounds of one debate
ClaudeListensRound == ClaudeListenEnv(RoundResponses, MaxRoundSent)

NextRound == ClaudeListensRound \/ ClaudeListenQueued

SpecRound == Init /\ [][NextRound]_vars

---------------------------------------------------------------------------
(* Model calls behind the response cache (call_claude_api, call_gpt_api) *)

\* what one POST to the provider can come back with
ApiOutcomes ==
    { [status |-> "200", body |-> b] : b \in Bodies }
    \cup { [status |-> st, body |-> Absent] : st \in {"429", "500", "exception"} }

\* the outcomes of the POSTs one call of call_claude_api can make: what
\* follows an outcome that ends the loop (a 200, or a status that is neither
\* 200 nor 429) is never asked for, and is written as a repetition of it
OutcomeRuns ==
    { os \in [1..MAX_RETRIES -> ApiOutcomes] :
        \A i \in 1..(MAX_RETRIES - 1) :
            os[i].status \in {"200", "500"} => os[i + 1] = os[i] }

\* the lookup both wrappers start with
CacheGetNever(agent_name, messages) == Absent
CacheGet(agent_name, messages) ==
    IF CACHING_ENABLED
    THEN RedisGet(redis_cache, cache_key(agent_name, messages), now)
    ELSE Absent

Attempt(result, posts, waits) == [result |-> result, posts |-> posts, waits |-> waits]

\* the retry loop of call_claude_api; os are the outcomes of the POSTs to
\* come, posts and waits the POSTs made and the sleeps taken so far
RECURSIVE ClaudeAttempts(_, _, _, _)
ClaudeAttempts(os, retry_count, posts, waits) ==
    IF retry_count >= MAX_RETRIES THEN Attempt(NoResult, posts, waits)
    ELSE CASE Head(os).status = "200" -> Attempt(Head(os).body, posts + 1, waits)
           [] Head(os).status = "429" ->
                ClaudeAttempts(Tail(os), retry_count + 1, posts + 1,
                               Append(waits, 2 ^ (retry_count + 1)))
           [] Head(os).status = "exception" ->
                IF retry_count + 1 >= MAX_RETRIES
                THEN Attempt(NoResult, posts + 1, waits)
                ELSE ClaudeAttempts(Tail(os), retry_count + 1, posts + 1,
                                    Append(waits, 1))
           [] OTHER -> Attempt(NoResult, posts + 1, waits)

\* the single POST of call_gpt_api; an exception of the client is not caught
GptAttempt(o) ==
    CASE o.status = "200" -> Attempt(o.body, 1, << >>)
      [] o.status = "exception" -> Attempt(Raised, 1, << >>)
      [] OTHER -> Attempt(NoResult, 1, << >>)

\* the attempt, with the statuses of the POSTs it made (an exception of the
\* client counts as the status "exception")
Answered(a, os) ==
    [result |-> a.result, posts |-> a.posts, waits |-> a.waits,
     statuses |-> SubSeq([i \in 1..Len(os) |-> os[i].status], 1, a.posts)]

\* a call of a wrapper by agent_name for messages: served from the cache, or
\* made as the attempt a says and stored with expiry ttl when it succeeded
ApiCall(agent_name, messages, a, ttl) ==
    LET cached == CacheGet(agent_name, messages)
        stores == CACHING_ENABLED /\ a.result \notin {NoResult, Raised}
    IN  /\ api_calls' = api_calls + 1
        /\ prev_call' = call
        /\ IF Truthy(cached)
           THEN /\ call' = [by |-> agent_name, request |-> messages, at |-> now,
                            result |-> Loads(cached), posts |-> 0, hit |-> TRUE,
                            waits |-> << >>, statuses |-> << >>]
                /\ redis_cache' = redis_cache
           ELSE /\ call' = [by |-> agent_name, request |-> messages, at |-> now,
                            result |-> a.result, posts |-> a.posts, hit |-> FALSE,
                            waits |-> a.waits, statuses |-> a.statuses]
                /\ redis_cache' =
                      IF stores
                      THEN RedisSetEx(redis_cache, cache_key(agent_name, messages),
                                      Dumps(a.result), ttl, now)
                      ELSE redis_cache

\* the wrapper called on its own
ModelCall(agent_name, messages, a, ttl) ==
    /\ api_calls < MaxCalls
    /\ ApiCall(agent_name, messages, a, ttl)
    /\ out' = << >>
    /\ last' = [NoOp EXCEPT !.op = "model_call", !.by = agent_name]
    /\ UNCHANGED << mod_vars, arb_vars, now, timer_due, sent, timeout_emitted,
                    rt_vars, gpt_vars >>

\* ClaudeAgent.call_claude_api(messages)
CallClaudeApi ==
    \E q \in Requests, os \in OutcomeRuns :
        ModelCall("Claude", q, Answered(ClaudeAttempts(os, 0, 0, << >>), os), CACHE_TTL)

\* GPTAgent.call_gpt_api(messages)
CallGptApi ==
    \E q \in Requests, o \in ApiOutcomes :
        ModelCall("GPT-4o", q, Answered(GptAttempt(o), << o >>), GPT_CACHE_TTL)

\* time passes between two calls
CacheClock ==
    /\ now < MaxCacheTime
    /\ now' = now + CacheTickStep
    /\ out' = << >>
    /\ last' = [NoOp EXCEPT !.op = "tick"]
    /\ UNCHANGED << mod_vars, arb_vars, timer_due, sent, timeout_emitted, api_vars, rt_vars, gpt_vars >>

NextCache == CallClaudeApi \/ CallGptApi \/ CacheClock

SpecCache == Init /\ [][NextCache]_vars

---------------------------------------------------------------------------
(* The refiner at run time (GPTAgent under BaseAgent.start) *)

\* the request call_gpt_api is given for a response: the system prompt and the
\* response's content
RefineRequest(msg) == IF msg.content = {"yes"} THEN "q1" ELSE "q2"

\* choices[0].message.content of the provider's answer
RefinedText(body) == { body }

DEFAULT_REFINER_CONFIDENCE == 80

\* the envelope process_response publishes: the identifiers and the confidence
\* of the response (or their defaults), its own name, the refined content
RefinedEnvelopeOwnConfidence(msg, body) ==
    [Blank EXCEPT !.ch = REDIS_CHANNEL_RES,
                  !.debate_id = IF msg.debate_id = Absent THEN "default" ELSE msg.debate_id,
                  !.round = IF msg.round = NoNumber THEN 0 ELSE msg.round,
                  !.agent = "GPT-4o",
                  !.content = RefinedText(body), !.has_content = TRUE,
                  !.confidence = DEFAULT_REFINER_CONFIDENCE]
RefinedEnvelope(msg, body) ==
    [Blank EXCEPT !.ch = REDIS_CHANNEL_RES,
                  !.debate_id = IF msg.debate_id = Absent THEN "default" ELSE msg.debate_id,
                  !.round = IF msg.round = NoNumber THEN 0 ELSE msg.round,
                  !.agent = "GPT-4o",
                  !.content = RefinedText(body), !.has_content = TRUE,
                  !.confidence = IF msg.confidence = NoNumber
                                 THEN DEFAULT_REFINER_CONFIDENCE ELSE msg.confidence]

RefinementSignal == On(WS, _generate_signal("refinement", "GPT-4o", "refined"))

GptOp(name) == [NoOp EXCEPT !.op = name, !.by = "GPT-4o"]

\* a bare envelope is refined like a response
RefinesBare(msg) == TRUE
\* the listener hands process_response data.get("response", ""): the response
\* object of a {"response": ..., "agent": ...} payload, and the string "" for
\* a bare envelope, on which response.get raises
RefinesPayload(msg) == msg.wrapped

\* GPTAgent.process_response(response, agent, ws); rest is the pubsub after
\* the message was taken
GptProcessResponse(msg, rest) ==
    IF ~RefinesPayload(msg)
    THEN /\ out' = << >>
         /\ last' = [GptOp("process_response") EXCEPT !.raised = TRUE]
         /\ gpt_pubsub' = rest
         /\ UNCHANGED << api_vars, gpt_published >>
    ELSE \E o \in ApiOutcomes :
           /\ ApiCall("GPT-4o", RefineRequest(msg), Answered(GptAttempt(o), << o >>),
                      GPT_CACHE_TTL)
           /\ LET refined_content == call'.result
                  published == << RefinedEnvelope(msg, refined_content) >>
              IN  IF refined_content \in Bodies
                  THEN /\ out' = published \o << RefinementSignal >>
                       /\ last' = [GptOp("process_response") EXCEPT
                                      !.debate_id = msg.debate_id, !.round = msg.round]
                       /\ gpt_pubsub' = rest \o published
                       /\ gpt_published' = gpt_published + 1
                  ELSE /\ out' = << >>
                       /\ last' = [GptOp("process_response") EXCEPT
                                      !.raised = (refined_content = Raised),
                                      !.debate_id = msg.debate_id, !.round = msg.round]
                       /\ gpt_pubsub' = rest
                       /\ UNCHANGED gpt_published

\* One turn of BaseAgent._listen_responses in the refiner.  GPTAgent defines
\* no process_moderation; the one it inherits has the body pass.
GptListen ==
    /\ gpt_pubsub # << >>
    /\ LET msg  == Head(gpt_pubsub)
           rest == Tail(gpt_pubsub)
       IN  /\ CASE msg.ch = REDIS_CHANNEL_RES -> GptProcessResponse(msg, rest)
                [] msg.ch = REDIS_CHANNEL_MOD /\ msg.state # Absent ->
                     /\ out' = << >>
                     /\ last' = [GptOp("process_moderation") EXCEPT !.state = msg.state]
                     /\ gpt_pubsub' = rest
                     /\ UNCHANGED << api_vars, gpt_published >>
                [] OTHER ->
                     /\ out' = << >>
                     /\ last' = GptOp("dropped")
                     /\ gpt_pubsub' = rest
                     /\ UNCHANGED << api_vars, gpt_published >>
           /\ Len(gpt_pubsub') <= MaxQueue
    /\ UNCHANGED << mod_vars, arb_vars, now, timer_due, sent, timeout_emitted, rt_vars >>

\* what reaches the refiner from the others: responses with and without the
\* identifiers and the confidence, the bare envelope of another refiner, and
\* the timeout signal of a peer
RefinerInputs ==
    { Envelope("d1", 1, a) : a \in Answers }
    \cup { [Blank EXCEPT !.ch = REDIS_CHANNEL_RES, !.wrapped = TRUE, !.agent = "Claude",
                         !.content = {"no"}, !.has_content = TRUE],
           [Blank EXCEPT !.ch = REDIS_CHANNEL_RES, !.agent = "GPT-4o", !.debate_id = "d1",
                         !.round = 1, !.content = {"b1"}, !.has_content = TRUE,
                         !.confidence = 95],
           On(REDIS_CHANNEL_MOD, TimeoutSignal("Grok")) }

\* the original responders and the peers publish
EnvToRefiner ==
    /\ sent < MaxRefinerSent
    /\ Len(gpt_pubsub) < MaxQueue
    /\ \E m \in RefinerInputs : gpt_pubsub' = Append(gpt_pubsub, m)
    /\ sent' = sent + 1
    /\ out' = << >>
    /\ last' = [NoOp EXCEPT !.op = "env"]
    /\ UNCHANGED << mod_vars, arb_vars, now, timer_due, timeout_emitted, api_vars, rt_vars,
                    gpt_published >>

NextRefiner == GptListen \/ EnvToRefiner

SpecRefiner == Init /\ [][NextRefiner]_vars

---------------------------------------------------------------------------
(* The tasks of an agent on the event loop (BaseAgent.start, the moderator) *)

TaskIndex(k) == CHOOSE i \in 1..Len(Tasks) : Tasks[i] = k

\* the tasks whose asyncio.sleep has ended at time t, earliest first
RECURSIVE DueTasks(_, _)
DueTasks(w, t) ==
    LET due == { k \in TaskNames : w[k] # NoNumber /\ w[k] <= t }
    IN  IF due = {} THEN << >>
        ELSE LET first == CHOOSE k \in due :
                              \A j \in due : w[k] < w[j]
                                  \/ (w[k] = w[j] /\ TaskIndex(k) <= TaskIndex(j))
             IN  << first >> \o DueTasks([w EXCEPT ![first] = NoNumber], t)

Awake(w, t) == [k \in TaskNames |-> IF w[k] # NoNumber /\ w[k] <= t THEN NoNumber ELSE w[k]]

\* the earliest end of a sleep
NextWake(w) ==
    LET S == { w[k] : k \in { j \in TaskNames : w[j] # NoNumber } }
    IN  CHOOSE x \in S : \A y \in S : x <= y

\* One iteration of the event loop while no task is executing: the sleeps
\* that have ended make their tasks ready, and the first ready task is resumed;
\* with nothing ready the loop waits for the earliest sleep to end.
EventLoop ==
    /\ agent_state = "running"
    /\ running = Idle
    /\ LET waits == ready = << >> /\ DueTasks(wake, now) = << >>
           t     == IF waits THEN NextWake(wake) ELSE now
           rdy   == ready \o DueTasks(wake, t)
       IN  /\ waits => \E k \in TaskNames : wake[k] # NoNumber
           /\ t <= MaxTaskTime
           /\ now' = t
           /\ running' = Head(rdy)
           /\ ready' = Tail(rdy)
           /\ wake' = Awake(wake, t)
    /\ out' = << >>
    /\ last' = [NoOp EXCEPT !.op = "event_loop"]
    /\ UNCHANGED << agent_state, entered, heartbeat_key, listener_errors >>
    /\ UNCHANGED << mod_vars, arb_vars, timer_due, sent, timeout_emitted, api_vars, gpt_vars >>

\* the except branch of _listen_responses: log, then await asyncio.sleep(1)
NoBackoff(w, t) == w
Backoff(w, t) == [w EXCEPT !["_listen_responses"] = t + ERROR_BACKOFF]

\* the listener caught an exception
ListenerCaught ==
    /\ listener_errors' = listener_errors + 1
    /\ wake' = Backoff(wake, now)
    /\ running' = Idle
    /\ ready' = ready

\* One pass of the while loop of _listen_responses in the moderator.  The
\* call pubsub.get_message(timeout=1.0) is a call of the synchronous client:
\* with no message it returns None after the timeout, and the loop goes round
\* without an await.  A handler that awaited the stream may or may not have
\* been suspended there.
ListenerTurn ==
    /\ agent_state = "running"
    /\ running = "_listen_responses"
    /\ entered' = entered \cup {"_listen_responses"}
    /\ IF grok_pubsub = << >>
       THEN /\ now < MaxTaskTime
            /\ \E fails \in BOOLEAN :
                 /\ last' = [Op("_listen_responses") EXCEPT !.raised = fails]
                 /\ IF fails
                    THEN ListenerCaught /\ now' = now
                    ELSE /\ now' = now + POLL_TIMEOUT
                         /\ UNCHANGED << running, ready, wake, listener_errors >>
            /\ out' = << >>
            /\ UNCHANGED mod_vars
       ELSE LET msg  == Head(grok_pubsub)
                rest == Tail(grok_pubsub)
            IN  /\ CASE ~msg.decodes ->
                          /\ out' = << >>
                          /\ last' = [Op("json.loads") EXCEPT !.raised = TRUE]
                          /\ grok_pubsub' = rest
                          /\ UNCHANGED << dsm_vars, history, redis_keys, last_phase_tag,
                                          reset_pending >>
                     [] msg.decodes /\ msg.ch = REDIS_CHANNEL_RES ->
                          GrokProcessResponse(msg, rest)
                     [] msg.decodes /\ msg.ch = REDIS_CHANNEL_MOD /\ msg.state # Absent ->
                          GrokProcessModeration(msg.state, rest)
                     [] OTHER ->
                          /\ out' = << >>
                          /\ last' = Op("dropped")
                          /\ grok_pubsub' = rest
                          /\ UNCHANGED << dsm_vars, history, redis_keys, last_phase_tag,
                                          reset_pending >>
                /\ Len(grok_pubsub') <= MaxQueue
                /\ now' = now
                /\ IF last'.raised
                   THEN ListenerCaught
                   ELSE /\ UNCHANGED << wake, listener_errors >>
                        /\ \E suspended \in { FALSE, out' # << >> } :
                             IF suspended
                             THEN running' = Idle /\ ready' = Append(ready, running)
                             ELSE UNCHANGED << running, ready >>
    /\ UNCHANGED << agent_state, heartbeat_key >>
    /\ UNCHANGED << arb_vars, timer_due, sent, timeout_emitted, api_vars, gpt_vars >>

\* an exception that leaves a coroutine of asyncio.gather leaves start() too
GatherRaises ==
    /\ agent_state' = "terminated"
    /\ running' = Idle
    /\ UNCHANGED << ready, wake >>

\* One pass of the while loop of _heartbeat: set the key with its expiry, then
\* await asyncio.sleep(HEARTBEAT_INTERVAL).  There is no try around the set.
HeartbeatTurn ==
    /\ agent_state = "running"
    /\ running = "_heartbeat"
    /\ entered' = entered \cup {"_heartbeat"}
    /\ \E fails \in BOOLEAN :
         /\ last' = [Op("_heartbeat") EXCEPT !.raised = fails]
         /\ IF fails
            THEN GatherRaises /\ UNCHANGED heartbeat_key
            ELSE /\ heartbeat_key' = [value |-> "alive", expires |-> now + HEARTBEAT_EXPIRY]
                 /\ wake' = [wake EXCEPT !["_heartbeat"] = now + HEARTBEAT_INTERVAL]
                 /\ running' = Idle
                 /\ UNCHANGED << agent_state, ready >>
    /\ out' = << >>
    /\ UNCHANGED << listener_errors, now >>
    /\ UNCHANGED << mod_vars, arb_vars, timer_due, sent, timeout_emitted, api_vars, gpt_vars >>

\* One pass of the while loop of _timeout_monitor: await
\* asyncio.sleep(DEBATE_TIMEOUT), then send the signal on the stream and publish
\* it.  There is no try around the send and the publish.
TimeoutMonitorTurn ==
    /\ agent_state = "running"
    /\ running = "_timeout_monitor"
    /\ entered' = entered \cup {"_timeout_monitor"}
    /\ IF "_timeout_monitor" \notin entered
       THEN /\ timer_due' = now + DEBATE_TIMEOUT
            /\ wake' = [wake EXCEPT !["_timeout_monitor"] = now + DEBATE_TIMEOUT]
            /\ running' = Idle
            /\ out' = << >>
            /\ last' = Op("_timeout_monitor")
            /\ UNCHANGED << agent_state, ready, grok_pubsub, timeout_emitted >>
       ELSE \E fails \in BOOLEAN :
              /\ last' = [Op("_timeout_monitor") EXCEPT !.raised = fails]
              /\ IF fails
                 THEN /\ GatherRaises
                      /\ out' = << >>
                      /\ UNCHANGED << timer_due, grok_pubsub, timeout_emitted >>
                 ELSE /\ Len(grok_pubsub) < MaxQueue
                      /\ out' = << On(WS, TimeoutSignal("Grok")),
                                   On(REDIS_CHANNEL_MOD, TimeoutSignal("Grok")) >>
                      /\ grok_pubsub' = Append(grok_pubsub,
                                               On(REDIS_CHANNEL_MOD, TimeoutSignal("Grok")))
                      /\ timeout_emitted' = TRUE
                      /\ timer_due' = now + DEBATE_TIMEOUT
                      /\ wake' = [wake EXCEPT !["_timeout_monitor"] = now + DEBATE_TIMEOUT]
                      /\ running' = Idle
                      /\ UNCHANGED << agent_state, ready >>
    /\ UNCHANGED << heartbeat_key, listener_errors, now >>
    /\ UNCHANGED << dsm_vars, history, redis_keys, last_phase_tag, reset_pending >>
    /\ UNCHANGED << arb_vars, sent, api_vars, gpt_vars >>

\* a payload that is not JSON
Undecodable == [Blank EXCEPT !.ch = REDIS_CHANNEL_RES, !.decodes = FALSE]

\* responders and peers publish while the tasks run
EnvToTasks ==
    /\ agent_state = "running"
    /\ sent < MaxTaskSent
    /\ Len(grok_pubsub) < MaxQueue
    /\ \E m \in ModResponses \cup ModPeerSignals \cup { Undecodable } :
         grok_pubsub' = Append(grok_pubsub, m)
    /\ sent' = sent + 1
    /\ out' = << >>
    /\ last' = [NoOp EXCEPT !.op = "env"]
    /\ UNCHANGED << dsm_vars, history, redis_keys, last_phase_tag, reset_pending >>
    /\ UNCHANGED << arb_vars, now, timer_due, timeout_emitted, api_vars, rt_vars, gpt_vars >>

NextTasks == EventLoop \/ ListenerTurn \/ HeartbeatTurn \/ TimeoutMonitorTurn \/ EnvToTasks

SpecTasks == Init /\ [][NextTasks]_vars

---------------------------------------------------------------------------
(* Properties of the state machine and the moderator *)

\* C1: one call of next_turn moves the phase to the next one in the cyclic
\* order propose -> critique -> refine -> conclude -> propose.
C1_NextTurnAdvancesPhase ==
    [][last'.op = "next_turn" => state_idx' = (state_idx + 1) % 4]_vars

\* C1 witness: next_turn has just wrapped the phase from conclude to propose
C1_Witness ==
    last.op = "next_turn" /\ state_idx = 0 /\ redis_keys.debate_state = "propose"

\* C2 as stated: the speaker makes one left cyclic step exactly when the phase
\* advances to its cyclic successor.
C2_LockstepAsStated ==
    [][IF state_idx' = (state_idx + 1) % 4
       THEN current_speaker_idx' = (current_speaker_idx + 1) % 3
       ELSE current_speaker_idx' = current_speaker_idx]_vars

\* C2 amended: the speaker makes one left cyclic step on every next_turn, and
\* handle_loop, kill_switch and the timeout reset leave it where it is (a loop
\* pivot advances the phase without rotating the speaker).
C2_RotationOnNextTurn ==
    [][IF last'.op = "next_turn"
       THEN current_speaker_idx' = (current_speaker_idx + 1) % 3
       ELSE current_speaker_idx' = current_speaker_idx]_vars

\* C2 witness: three next_turns brought the speaker back to Grok, one phase
\* short of a full phase cycle
C2_Witness ==
    last.op = "next_turn" /\ current_speaker_idx = 0 /\ state_idx = 3

Succ(tag) ==
    CASE tag = "propose" -> "critique"
      [] tag = "critique" -> "refine"
      [] tag = "refine" -> "conclude"
      [] OTHER -> "propose"

\* tags continue the cycle after prev: each tag is the one before it, announced
\* again, or its cyclic successor; the very first tag is propose
FollowsCycle(prev, tags) ==
    /\ tags # << >> =>
         IF prev = Absent THEN tags[1] = "propose" ELSE tags[1] \in {prev, Succ(prev)}
    /\ \A i \in 1..(Len(tags) - 1) : tags[i + 1] \in {tags[i], Succ(tags[i])}

\* C3 as stated: the phase tags the moderator emits form a prefix of
\* (propose, critique, refine, conclude) repeated; a phase announced again
\* before the next one (on the stream and on the bus) counts once.
C3_PhaseCycleAsStated ==
    [][FollowsCycle(last_phase_tag, PhaseTags(out'))]_vars

\* C3 amended: the phase tags follow the cyclic order, except that the first
\* tag after a timeout reset or a kill-switch reset is propose again.
C3_PhaseCycleUpToReset ==
    [][FollowsCycle(IF reset_pending THEN Absent ELSE last_phase_tag,
                    PhaseTags(out'))]_vars

\* C3 witness: a turn was taken after a timeout reset, announcing propose and
\* critique anew
C3_Witness ==
    /\ last.op = "next_turn" /\ last.after_reset
    /\ PhaseTags(out) = << "propose", "critique", "critique" >>

---------------------------------------------------------------------------
(* Properties of the arbiter *)

\* the round-arbitration decisions among a step's messages: an arbitration
\* outcome, or the continue record on the moderation topic
IsDecision(m) ==
    \/ m.ch = REDIS_CHANNEL_ARB /\ m.status \in TerminalStatus
    \/ m.ch = REDIS_CHANNEL_MOD /\ m.status = "continue"

Decisions(msgs) == SelectSeq(msgs, IsDecision)

\* the step is the arbiter's process_response storing a response
Ingests == last'.op = "process_response" /\ last'.by = "Claude" /\ ~last'.raised

\* the responses of the ingested response's round, once it is appended
RoundAfterIngest ==
    Stored(active_debates, last'.debate_id, last'.round) \o last'.response

\* C4: whenever the ingest of a response brings the stored responses of
\* (D, r) to at least 3, exactly one decision (consensus, strong_confidence,
\* concluded or continue) is emitted for (D, r) within that ingest, hence
\* before any further response is ingested.
C4_OneDecisionPerFullRound ==
    [][Ingests /\ Len(RoundAfterIngest) >= 3 =>
         /\ Len(Decisions(out')) = 1
         /\ Decisions(out')[1].debate_id = last'.debate_id
         /\ Decisions(out')[1].round = last'.round]_vars

\* C4 witness: the third response of a round was ingested in time and round
\* arbitration asked for another round
C4_Witness ==
    /\ last.op = "process_response" /\ last.arbitration = "continue"
    /\ Len(Stored(active_debates, last.debate_id, last.round)) = 3
    /\ Len(Decisions(out)) = 1

\* a debate counts as terminated once a terminal outcome was published for
\* it, or once it is no longer active after a timeout signal went out
Terminated(d) ==
    \/ d \in outcome_for
    \/ /\ timeout_emitted
       /\ \/ d \notin Ids(active_debates)
          \/ Debate(active_debates, d).status = "completed"

\* C5: every debate with at least one ingested response eventually
\* terminates, also when the remaining responders stay silent.
C5_EventuallyTerminates ==
    \A d \in DebateIds : (d \in Ids(active_debates)) ~> Terminated(d)

\* C6: the number of debates tracked in active_debates is at most
\* MAX_HISTORY_SIZE.
C6_TrackedDebatesBounded == Len(active_debates) <= MAX_HISTORY_SIZE

\* a debate as the cleanup loop sees it: completed before, or the debate that
\* was just concluded
CompletedAtCleanup(i) ==
    active_debates[i].status = "completed" \/ active_debates[i].id = last'.debate_id

\* C7: every debate deleted from active_debates is completed at the moment
\* of deletion, and no completed debate has an earlier start_time.
C7_EvictsOldestCompleted ==
    [][\A i \in 1..Len(active_debates) :
          active_debates[i].id \notin Ids(active_debates') =>
             /\ last'.arbitration = "final"
             /\ CompletedAtCleanup(i)
             /\ \A j \in 1..Len(active_debates) :
                   CompletedAtCleanup(j) =>
                      active_debates[i].start_time <= active_debates[j].start_time]_vars

\* C7 witness: final arbitration of one debate evicted another, completed
\* debate, and a debate that is still active was left alone
C7_Witness ==
    /\ last.arbitration = "final" /\ last.evicted # {}
    /\ last.debate_id \notin last.evicted
    /\ \E i \in 1..Len(active_debates) : active_debates[i].status = "active"

\* C8: once a debate is completed, a further conclude signal, timeout or late
\* response for it publishes no arbitration outcome for it and sends no
\* conclude signal.
C8_ConclusionIdempotent ==
    [][/\ last'.by = "Claude"
       /\ last'.debate_id \in Ids(active_debates)
       /\ Debate(active_debates, last'.debate_id).status = "completed"
       => /\ last'.debate_id \notin OutcomeDebates(out')
          /\ \A i \in 1..Len(out') : out'[i].state # "conclude"]_vars

\* C9: a response ingested for a debate older than DEBATE_TIMEOUT
\* force-concludes it: final arbitration on the responses of that round
\* publishes one concluded outcome, whose winner is the first response of the
\* highest confidence, however few responses the round has, and no
\* round-arbitration signal is sent.
C9_TimeoutForcesConclusion ==
    [][/\ Ingests
       /\ last'.debate_id \in Ids(active_debates)
       /\ now - Debate(active_debates, last'.debate_id).start_time > DEBATE_TIMEOUT
       => LET rs   == RoundAfterIngest
              decs == Decisions(out')
          IN  /\ Len(decs) = 1
              /\ decs[1].status = "concluded"
              /\ decs[1].debate_id = last'.debate_id
              /\ decs[1].round = last'.round
              /\ \A i \in 1..Len(rs) : rs[i].confidence <= decs[1].confidence
              /\ \E i \in 1..Len(rs) :
                    /\ rs[i].confidence = decs[1].confidence
                    /\ rs[i].agent = decs[1].winning_agent
                    /\ rs[i].content = decs[1].content
                    /\ \A j \in 1..(i - 1) : rs[j].confidence < rs[i].confidence
              /\ \A i \in 1..Len(out') :
                    out'[i].flag \notin {"consensus", "strong_confidence", "continue"}
              /\ last'.debate_id \in Ids(active_debates') =>
                    Debate(active_debates', last'.debate_id).status = "completed"]_vars

\* C9 witness: a late response force-concluded a round of two responses, the
\* earlier one winning on confidence
C9_Witness ==
    /\ last.op = "process_response" /\ last.arbitration = "final"
    /\ last.debate_id \in Ids(active_debates)
    /\ Len(Stored(active_debates, last.debate_id, last.round)) = 2
    /\ Len(Decisions(out)) = 1
    /\ Decisions(out)[1].confidence > last.response[1].confidence

\* C10: when the arbiter receives the timeout signal of the timeout loop,
\* every active debate (each has a response) is force-concluded: a concluded
\* outcome is published for it.
C10_TimeoutSignalConcludes ==
    [][last'.by = "Claude" /\ last'.op = "process_moderation" /\ last'.state = "timeout"
       => \A i \in 1..Len(active_debates) :
             active_debates[i].status = "active" =>
                active_debates[i].id \in OutcomeDebates(out')]_vars

\* the responses final arbitration is run on in this step: the round of the
\* ingested response, or the latest round of the debate a conclude signal names
FinalInput ==
    IF last'.op = "process_response" THEN RoundAfterIngest
    ELSE IF last'.debate_id \in Ids(active_debates)
    THEN LET rounds == Debate(active_debates, last'.debate_id).rounds
         IN  IF DOMAIN rounds = {} THEN << >> ELSE rounds[Max(DOMAIN rounds)]
    ELSE << >>

\* rs[i] has the highest confidence among the responses at the positions in
\* among, and arrived first among those that tie with it
TopAmong(rs, among, i) ==
    /\ i \in among
    /\ \A j \in among : rs[j].confidence <= rs[i].confidence
    /\ \A j \in among : j < i => rs[j].confidence < rs[i].confidence

\* C11: final arbitration on a non-empty response list does not raise; it
\* publishes one outcome with status concluded whose winner has the maximum
\* confidence (first-arrived among ties) and whose dissenting_view is the
\* second-highest response when there are two or more and null otherwise, and
\* the debate is marked completed.
C11_FinalArbitrationDefined ==
    [][last'.by = "Claude" /\ last'.arbitration = "final" /\ FinalInput # << >>
       => LET rs   == FinalInput
              all  == 1..Len(rs)
              decs == Decisions(out')
          IN  /\ ~last'.raised
              /\ Len(decs) = 1
              /\ decs[1].status = "concluded"
              /\ decs[1].debate_id = last'.debate_id
              /\ \E i \in all :
                    /\ TopAmong(rs, all, i)
                    /\ decs[1].winning_agent = rs[i].agent
                    /\ decs[1].content = rs[i].content
                    /\ decs[1].confidence = rs[i].confidence
                    /\ IF Len(rs) >= 2
                       THEN \E j \in all \ {i} :
                              /\ TopAmong(rs, all \ {i}, j)
                              /\ decs[1].dissenting_view =
                                    << [agent |-> rs[j].agent, content |-> rs[j].content,
                                        confidence |-> rs[j].confidence] >>
                       ELSE decs[1].dissenting_view = << >>
              /\ last'.debate_id \in Ids(active_debates') =>
                    Debate(active_debates', last'.debate_id).status = "completed"]_vars

\* C11 witness: final arbitration at the last round chose, of two responses
\* that tie at the top, the one that arrived first (after a weaker response),
\* and reports the other as the dissenting view
C11_Witness ==
    /\ last.op = "process_response" /\ last.arbitration = "final"
    /\ last.debate_id \in Ids(active_debates)
    /\ LET rs == Stored(active_debates, last.debate_id, last.round)
       IN  /\ Len(rs) = 3
           /\ rs[1].confidence < rs[2].confidence
           /\ rs[2].confidence = rs[3].confidence
           /\ Len(Decisions(out)) = 1
           /\ Decisions(out)[1].winning_agent = rs[2].agent
           /\ Decisions(out)[1].dissenting_view # << >>
           /\ Decisions(out)[1].dissenting_view[1].agent = rs[3].agent

\* the step is an ingest that runs round arbitration: the round has three
\* responses or more and the debate has not timed out
RoundArbitrated ==
    /\ Ingests
    /\ Len(RoundAfterIngest) >= 3
    /\ last'.debate_id \in Ids(active_debates) =>
          now - Debate(active_debates, last'.debate_id).start_time <= DEBATE_TIMEOUT

\* S / (n(n-1)/2) > 0.8 for the S similar pairs among the n responses rs
HasConsensus(rs) == 20 * similar_count(rs) > 8 * Len(rs) * (Len(rs) - 1)

\* top confidence minus second confidence, for two responses or more
ConfidenceGap(rs) ==
    LET all == 1..Len(rs)
        i   == CHOOSE x \in all : TopAmong(rs, all, x)
        j   == CHOOSE x \in all \ {i} : TopAmong(rs, all \ {i}, x)
    IN  rs[i].confidence - rs[j].confidence

\* a moderation signal of the arbiter with this flag is among msgs
Flagged(msgs, flag) ==
    \E i \in 1..Len(msgs) :
        msgs[i].ch = WS /\ msgs[i].state = "arbitration" /\ msgs[i].flag = flag

\* C12: round arbitration declares consensus exactly when
\* S / (n(n-1)/2) > 0.8; the outcome then has status consensus, carries the
\* content and confidence of the highest-confidence response, lists every
\* responding agent, and is the only decision of that arbitration.
C12_ConsensusExactlyWhenSimilar ==
    [][RoundArbitrated =>
         LET rs   == RoundAfterIngest
             decs == Decisions(out')
         IN  IF HasConsensus(rs)
             THEN /\ Len(decs) = 1
                  /\ decs[1].status = "consensus"
                  /\ decs[1].debate_id = last'.debate_id
                  /\ decs[1].round = last'.round
                  /\ \E i \in 1..Len(rs) :
                        /\ TopAmong(rs, 1..Len(rs), i)
                        /\ decs[1].content = rs[i].content
                        /\ decs[1].confidence = rs[i].confidence
                  /\ decs[1].contributing_agents = Agents(rs)
                  /\ Flagged(out', "consensus")
             ELSE /\ \A k \in 1..Len(decs) : decs[k].status # "consensus"
                  /\ ~Flagged(out', "consensus")]_vars

\* C12 witness: three responses of the same content reached consensus, the
\* chosen response being a later, more confident one
C12_Witness ==
    /\ last.op = "process_response" /\ last.arbitration = "consensus"
    /\ LET rs == Stored(active_debates, last.debate_id, last.round)
       IN  /\ Len(rs) = 3
           /\ Len(Decisions(out)) = 1
           /\ Decisions(out)[1].status = "consensus"
           /\ Decisions(out)[1].confidence > rs[1].confidence
           /\ Decisions(out)[1].contributing_agents = Agents(rs)

\* C13: a strong_confidence outcome is published only by a round arbitration
\* without consensus, of a round >= MIN_DEBATE_ROUNDS, whose top confidence
\* exceeds the second by more than CONFIDENCE_THRESHOLD; its content is the
\* top-confidence response and contributing_agents holds only the winner.
C13_StrongConfidenceOnlyWhenAllowed ==
    [][\A k \in 1..Len(out') :
          out'[k].ch = REDIS_CHANNEL_ARB /\ out'[k].status = "strong_confidence" =>
             /\ RoundArbitrated
             /\ LET rs == RoundAfterIngest
                IN  /\ ~HasConsensus(rs)
                    /\ last'.round >= MIN_DEBATE_ROUNDS
                    /\ out'[k].round = last'.round
                    /\ ConfidenceGap(rs) > CONFIDENCE_THRESHOLD
                    /\ \E i \in 1..Len(rs) :
                          /\ TopAmong(rs, 1..Len(rs), i)
                          /\ out'[k].content = rs[i].content
                          /\ out'[k].confidence = rs[i].confidence
                          /\ out'[k].contributing_agents = << rs[i].agent >>]_vars

\* C13 witness: a strong_confidence outcome at round MIN_DEBATE_ROUNDS, for
\* three responses that do not agree
C13_Witness ==
    /\ last.op = "process_response" /\ last.arbitration = "strong_confidence"
    /\ last.round = MIN_DEBATE_ROUNDS
    /\ Len(Stored(active_debates, last.debate_id, last.round)) = 3
    /\ Len(Decisions(out)) = 1
    /\ Decisions(out)[1].status = "strong_confidence"
    /\ Len(Decisions(out)[1].contributing_agents) = 1

\* the status of debate id, "active" when it is not tracked yet
StatusOf(ad, id) == IF id \in Ids(ad) THEN Debate(ad, id).status ELSE "active"

C15_RoundsBounded ==
    [][/\ RoundArbitrated /\ last'.round >= MAX_DEBATE_ROUNDS =>
            LET rs   == RoundAfterIngest
                decs == Decisions(out')
            IN  /\ Len(decs) = 1
                /\ decs[1].status \in TerminalStatus
                /\ ~Flagged(out', "continue")
                /\ decs[1].status = "concluded" =>
                      /\ \E i \in 1..Len(rs) :
                            /\ TopAmong(rs, 1..Len(rs), i)
                            /\ decs[1].winning_agent = rs[i].agent
                      /\ decs[1].dissenting_view # << >>
       /\ \A k \in 1..Len(out') :
             out'[k].ch = REDIS_CHANNEL_MOD /\ out'[k].status = "continue" =>
                out'[k].next_round <= MAX_DEBATE_ROUNDS]_vars

\* C15 witness: a round beyond MAX_DEBATE_ROUNDS was concluded by final
\* arbitration, with a dissenting view
C15_Witness ==
    /\ last.op = "process_response" /\ last.arbitration = "final"
    /\ last.round > MAX_DEBATE_ROUNDS
    /\ Len(Decisions(out)) = 1
    /\ Decisions(out)[1].status = "concluded"
    /\ Decisions(out)[1].dissenting_view # << >>
    /\ ~Flagged(out, "continue")

---------------------------------------------------------------------------
(* Properties of stagnation detection *)

\* next_turn has just wrapped the phase back to propose
Wrapped == last.op = "next_turn" /\ last.by = "Grok" /\ state_idx = 0

\* the moderator has just pulled the kill switch: one signal flagged
\* kill_switch, phase and stagnation counter back to 0, no turn taken
KillSwitched ==
    /\ last.op = "kill_switch"
    /\ state_idx = 0 /\ turns_since_progress = 0
    /\ \E i \in 1..Len(out) : out[i].ch = REDIS_CHANNEL_MOD /\ out[i].flag = "kill_switch"

\* C16: deadlock is reached and handled: in a debate whose phase keeps
\* wrapping back to propose, turns_since_progress grows to 3 and the
\* moderator then pulls the kill switch.
C16_DeadlockKilled == ([]<>Wrapped) => <>KillSwitched

\* the step is the moderator's process_response on a response envelope
ModeratorHandlesResponse ==
    /\ grok_pubsub # << >>
    /\ Head(grok_pubsub).ch = REDIS_CHANNEL_RES
    /\ Head(grok_pubsub).wrapped
    /\ last'.by = "Grok"
    /\ last'.op \in {"process_response", "next_turn", "handle_loop", "kill_switch"}

LoopFlagged(msgs) == \E i \in 1..Len(msgs) : msgs[i].flag = "loop_detected"

\* C17: when the history has two entries or more and its last two entries
\* are similar beyond 0.87 (equal entries have similarity 1), processing the
\* response emits a signal flagged loop_detected, sets the phase to
\* min(phase + 1, 3), leaves the speaker and turns_since_progress unchanged
\* and takes no turn; with fewer than two entries no loop is reported.
C17_LoopDetectedAndPivoted ==
    [][ModeratorHandlesResponse =>
         IF Len(history') >= 2
         THEN history'[Len(history')] = history'[Len(history') - 1] =>
                 /\ LoopFlagged(out')
                 /\ state_idx' = Min(state_idx + 1, 3)
                 /\ current_speaker_idx' = current_speaker_idx
                 /\ turns_since_progress' = turns_since_progress
                 /\ last'.op # "next_turn"
                 /\ \A i \in 1..Len(out') : out'[i].action # "next_turn"
         ELSE ~LoopFlagged(out')]_vars

\* histories of two and three entries
Histories == UNION { [1..n -> Contents] : n \in 2..3 }

SameLastTwo(h1, h2) ==
    /\ h1[Len(h1)] = h2[Len(h2)]
    /\ h1[Len(h1) - 1] = h2[Len(h2) - 1]

---------------------------------------------------------------------------
(* Properties of the stored responses *)

\* the rounds new that a step leaves a debate with, given the rounds old it
\* had: every list as it was, except that an ingest for this debate appended
\* its response at the end of its round's list
GrownByAppend(id, old, new) ==
    /\ DOMAIN old \subseteq DOMAIN new
    /\ \A r \in DOMAIN new :
          LET before == IF r \in DOMAIN old THEN old[r] ELSE << >>
          IN  \/ r \in DOMAIN old /\ new[r] = before
              \/ /\ Ingests /\ last'.debate_id = id /\ last'.round = r
                 /\ new[r] = before \o last'.response

\* C19: the stored responses of a debate and round only grow by appending at
\* the end in arrival order: while the debate stays in active_debates no
\* operation of the arbiter removes or reorders a stored response.
C19_ResponsesAppendOnly ==
    [][\A i \in 1..Len(active_debates') :
          LET id == active_debates'[i].id
          IN  GrownByAppend(id,
                            IF id \in Ids(active_debates)
                            THEN Debate(active_debates, id).rounds ELSE NoRounds,
                            active_debates'[i].rounds)]_vars

\* C19 witness: final arbitration sorted two responses by confidence and
\* chose the later one, and the stored list is still in arrival order
C19_Witness ==
    /\ last.op = "process_response" /\ last.by = "Claude" /\ last.arbitration = "final"
    /\ last.debate_id \in Ids(active_debates)
    /\ LET rs == Stored(active_debates, last.debate_id, last.round)
       IN  /\ Len(rs) = 2
           /\ rs[1].confidence < rs[2].confidence
           /\ << rs[2] >> = last.response
           /\ Len(Decisions(out)) = 1
           /\ Decisions(out)[1].winning_agent = rs[2].agent

---------------------------------------------------------------------------
(* Properties of the response cache *)

\* the expiry each wrapper stores with
TtlOf(agent_name) == IF agent_name = "Claude" THEN CACHE_TTL ELSE GPT_CACHE_TTL

Succeeded(c) == c.result \in Bodies

\* the latest two calls are identical requests of one agent, issued one
\* after the other within the cache TTL, the first of which went to the
\* provider and succeeded
RepeatedWithinTtl ==
    /\ api_calls >= 2
    /\ call.by = prev_call.by
    /\ call.request = prev_call.request
    /\ call.at - prev_call.at < TtlOf(call.by)
    /\ ~prev_call.hit
    /\ Succeeded(prev_call)

\* C20: of two identical requests issued one after the other within the
\* cache TTL, the first of which succeeds, the second returns the response
\* of the first without any POST to the provider, so that the two cause one
\* model call; and a call that fails stores nothing in the cache.
C20_CachedCallsShareOneModelCall ==
    /\ RepeatedWithinTtl =>
          /\ call.result = prev_call.result
          /\ call.hit
          /\ call.posts = 0
    /\ \A agent_name \in {"Claude", "GPT-4o"}, q \in Requests :
          LET entry == redis_cache[cache_key(agent_name, q)]
          IN  /\ call.by = agent_name /\ call.request = q /\ ~call.hit
                 /\ ~Succeeded(call) /\ api_calls >= 1
                 => entry.value = NoText \/ entry.expires < call.at + TtlOf(agent_name)
              /\ entry.value # NoText => Loads(entry.value) \in Bodies

\* C20 witness: the arbiter's first call was rate-limited once and then
\* succeeded; the same request, made again later within the TTL, was served
\* from the cache
C20_Witness ==
    /\ RepeatedWithinTtl
    /\ call.by = "Claude"
    /\ prev_call.posts = 2
    /\ call.at > prev_call.at
    /\ call.hit /\ call.posts = 0
    /\ call.result = prev_call.result

---------------------------------------------------------------------------
(* Properties of the agent's tasks *)

\* C21: while the agent runs, the heartbeat key is set to alive with its
\* expiry within HEARTBEAT_INTERVAL of the start and is kept fresh from then
\* on, whatever arrives on the bus, even when no message ever arrives.
C21_HeartbeatKeptAlive ==
    (agent_state = "running" /\ now > HEARTBEAT_INTERVAL) =>
        /\ heartbeat_key.value = "alive"
        /\ now < heartbeat_key.expires

\* C22: no operation of the arbiter changes the global thresholds
\* (CONFIDENCE_THRESHOLD, CONSENSUS_THRESHOLD, MIN_DEBATE_ROUNDS,
\* MAX_DEBATE_ROUNDS), and handling a deadlock or a loop_detected moderation
\* message leaves active_debates as it was.
C22_ThresholdsNotMutated ==
    /\ [](config = StartupConfig)
    /\ [][ ( /\ last'.by = "Claude"
             /\ last'.op = "process_moderation"
             /\ last'.state \in {"deadlock", "loop_detected"} )
           => active_debates' = active_debates ]_vars

C22_Witness ==
    /\ last.by = "Claude"
    /\ last.op = "process_moderation"
    /\ last.state = "deadlock"
    /\ Flagged(out, "threshold_adjusted")
    /\ active_debates # << >>
    /\ config = StartupConfig

\* C23: every loop_detected signal of the moderator (the record handle_loop
\* returns, published on the moderation topic) that reaches the arbiter's
\* listener is dispatched to process_moderation as loop_detected, and the
\* arbiter then emits its forcing_decision signal.
C23_LoopAlertForcesDecision ==
    [][ (last'.by = "Claude" /\ last'.flag = "loop_detected")
        => /\ last'.op = "process_moderation"
           /\ last'.state = "loop_detected"
           /\ Flagged(out', "forcing_decision") ]_vars

\* C24: the moderator's history is a first-in-first-out buffer of capacity
\* MAX_HISTORY_SIZE: it never holds more than MAX_HISTORY_SIZE entries, and a
\* handled response puts its content last, drops the oldest entry when the
\* buffer was full and keeps the order of the others.
C24_HistoryIsBoundedFifo ==
    /\ [](Len(history) <= MAX_HISTORY_SIZE)
    /\ [][ ModeratorHandlesResponse =>
           LET content == IF Head(grok_pubsub).has_content
                          THEN Head(grok_pubsub).content ELSE {}
           IN  history' = IF Len(history) < MAX_HISTORY_SIZE
                          THEN history \o << content >>
                          ELSE Tail(history) \o << content >> ]_vars

C24_Witness ==
    /\ last.by = "Grok"
    /\ last.op = "process_response"
    /\ last.evicted # {}
    /\ Len(history) = MAX_HISTORY_SIZE
    /\ history[1] \notin last.evicted

\* the listener is executing, ready to be resumed, or asleep in its backoff
ListenerAlive ==
    \/ running = "_listen_responses"
    \/ \E i \in 1..Len(ready) : ready[i] = "_listen_responses"
    \/ wake["_listen_responses"] # NoNumber

\* C25: when decoding a message, process_response or process_moderation
\* raises, the agent keeps running: the listener counts (logs) the error, drops
\* that message and no other, sleeps for the one-second backoff and stays
\* alive to handle the messages that follow.
C25_ListenerSurvivesErrors ==
    /\ [](agent_state = "running" => ListenerAlive)
    /\ [][ ( /\ last'.raised
             /\ last'.op \in {"json.loads", "process_response", "process_moderation"} )
           => /\ agent_state' = "running"
              /\ listener_errors' = listener_errors + 1
              /\ grok_pubsub' = Tail(grok_pubsub)
              /\ wake'["_listen_responses"] = now' + ERROR_BACKOFF ]_vars

\* a response is handled after an earlier message made the listener fail
C25_Witness ==
    /\ agent_state = "running"
    /\ listener_errors > 0
    /\ last.by = "Grok"
    /\ last.op = "next_turn"

\* C26: a transport failure in any of the agent's tasks (the poll of the
\* listener, the write of the heartbeat key, the send or the publish of the
\* timeout monitor) is retried after the one-second backoff: the agent and its
\* other tasks keep running and the debate state in memory is kept.
C26_TransportFailureRetried ==
    [][ (last'.raised /\ last'.op \in TaskNames)
        => /\ agent_state' = "running"
           /\ wake'[last'.op] = now' + ERROR_BACKOFF
           /\ UNCHANGED << dsm_vars, history >> ]_vars

---------------------------------------------------------------------------
(* Properties of the model calls and of the refiner *)

\* the retry policy, read off the statuses, sleeps and result of a call c
\* that was not served from the cache
RetryPolicy(c) ==
    LET n == Len(c.statuses)
    IN  /\ c.posts = n
        /\ 1 <= n /\ n <= MAX_RETRIES
        /\ \A i \in 1..n :
             CASE c.statuses[i] = "200" -> i = n /\ c.result \in Bodies
               [] c.statuses[i] \in {"429", "exception"} ->
                    IF i < MAX_RETRIES THEN n > i ELSE c.result = NoResult
               [] OTHER -> i = n /\ c.result = NoResult
        /\ Len(c.waits) \in {n - 1, n}
        /\ \A i \in 1..(n - 1) :
             c.waits[i] = IF c.statuses[i] = "429" THEN 2 ^ i ELSE 1
        /\ Len(c.waits) = n => (c.statuses[n] = "429" /\ c.waits[n] = 2 ^ n)

\* C27: a model call that goes to the provider ends after at most
\* max_retries = 3 POSTs: a 200 returns the result at once, a 429 counts an
\* attempt and is retried after 2^attempt seconds, another status returns no
\* result without a retry, an exception of the client counts an attempt and is
\* retried after one second, and after the third counted attempt the call
\* returns no result.
C27_RetriesBounded ==
    (call.by # Absent /\ ~call.hit) => RetryPolicy(call)

\* the step is the refiner's process_response on a response envelope
RefinerHandlesResponse ==
    /\ gpt_pubsub # << >>
    /\ Head(gpt_pubsub).ch = REDIS_CHANNEL_RES
    /\ Head(gpt_pubsub).wrapped
    /\ last'.by = "GPT-4o"
    /\ last'.op = "process_response"

\* C28: for each response the refiner handles, if the model call returns a
\* result it publishes exactly one envelope on the responses topic, with the
\* response's debate_id and round, its own name as agent and the response's
\* confidence, and then sends one refinement signal; if the call returns no
\* result it publishes nothing and sends no signal.
C28_RefinerPublishesOnce ==
    [][ RefinerHandlesResponse =>
        LET msg == Head(gpt_pubsub)
        IN  IF call'.result \in Bodies
            THEN /\ Len(out') = 2
                 /\ out'[1].ch = REDIS_CHANNEL_RES
                 /\ out'[1].debate_id = IF msg.debate_id = Absent THEN "default"
                                        ELSE msg.debate_id
                 /\ out'[1].round = IF msg.round = NoNumber THEN 0 ELSE msg.round
                 /\ out'[1].agent = "GPT-4o"
                 /\ out'[1].confidence = IF msg.confidence = NoNumber
                                         THEN DEFAULT_REFINER_CONFIDENCE
                                         ELSE msg.confidence
                 /\ out'[2].ch = WS
                 /\ out'[2].state = "refinement"
                 /\ out'[2].flag = "refined"
            ELSE out' = << >> ]_vars

\* a response of confidence 0.6 in debate d1 was refined and republished
C28_Witness ==
    /\ last.by = "GPT-4o"
    /\ last.op = "process_response"
    /\ Len(out) = 2
    /\ out[1].agent = "GPT-4o"
    /\ out[1].debate_id = "d1"
    /\ out[1].confidence = 60
    /\ out[2].state = "refinement"

\* C29: refinement does not feed on itself: a bare envelope, the shape the
\* refiner republishes and receives back on the responses topic, is never
\* refined and republished; every envelope the refiner publishes answers one
\* response of another agent, so it publishes no more envelopes than the
\* others have sent messages.
C29_RefinementNotFedBack ==
    /\ [](gpt_published <= sent)
    /\ [][ (last'.by = "GPT-4o" /\ gpt_pubsub # << >> /\ ~Head(gpt_pubsub).wrapped)
           => /\ gpt_published' = gpt_published
              /\ Published(out', REDIS_CHANNEL_RES) = << >> ]_vars
    /\ [][ gpt_published' # gpt_published
           => /\ gpt_published' = gpt_published + 1
              /\ Head(gpt_pubsub).wrapped
              /\ Len(Published(out', REDIS_CHANNEL_RES)) = 1 ]_vars

\* the single response sent was refined, and the refiner has taken its own
\* envelope back from the responses topic without publishing again
C29_Witness ==
    /\ sent = 1
    /\ gpt_published = 1
    /\ gpt_pubsub = << >>
    /\ last.by = "GPT-4o"
    /\ last.op = "process_response"
    /\ last.raised
    /\ out = << >>


\* ---------------------------------------------------------------------
\* Properties of the conclude signal at the arbiter
\* ---------------------------------------------------------------------

\* C30: every moderation message with state conclude that reaches the
\* arbiter runs final arbitration; the moderator's next_turn signal on
\* entering conclude names no debate, so it concludes the round with the
\* highest number of debate "default" when that debate is tracked (a signal
\* flagged final_decision on the stream and one concluded outcome whose winner
\* has the highest confidence of that round, the debate completed), and it
\* publishes nothing and changes no debate otherwise.
C30_ConcludeSignalArbitrates ==
    [][last'.by = "Claude" /\ last'.op = "process_moderation" /\ last'.state = "conclude"
       => IF "default" \in Ids(active_debates)
          THEN LET rounds == Debate(active_debates, "default").rounds
                   decs   == Decisions(out')
               IN  /\ last'.arbitration = "final"
                   /\ ~last'.raised
                   /\ Len(decs) = 1
                   /\ decs[1].debate_id = "default"
                   /\ decs[1].status = "concluded"
                   /\ decs[1].round \in DOMAIN rounds
                   /\ \A q \in DOMAIN rounds : q <= decs[1].round
                   /\ LET rs == rounds[decs[1].round]
                      IN  \E i \in 1..Len(rs) :
                             /\ TopAmong(rs, 1..Len(rs), i)
                             /\ decs[1].winning_agent = rs[i].agent
                             /\ decs[1].confidence = rs[i].confidence
                   /\ \E i \in 1..Len(out') :
                         out'[i].ch = WS /\ out'[i].flag = "final_decision"
                   /\ "default" \in Ids(active_debates') =>
                         Debate(active_debates', "default").status = "completed"
          ELSE /\ out' = << >>
               /\ ~last'.raised
               /\ active_debates' = active_debates]_vars

\* C30 witness: the next_turn signal concluded debate "default", which had
\* responses in two rounds, on the later one
C30_Witness ==
    /\ last.by = "Claude" /\ last.op = "process_moderation" /\ last.state = "conclude"
    /\ last.arbitration = "final"
    /\ "default" \in Ids(active_debates)
    /\ Cardinality(DOMAIN Debate(active_debates, "default").rounds) = 2
    /\ Len(Decisions(out)) = 1
    /\ Decisions(out)[1].round = MAX_DEBATE_ROUNDS


\* ---------------------------------------------------------------------
\* Properties of the arbiter's debate table
\* ---------------------------------------------------------------------

\* C31: in every reachable state of the arbiter each tracked debate has at
\* least one round and each of its rounds holds at least one response.
C31_DebatesNeverEmpty ==
    \A i \in 1..Len(active_debates) :
       /\ DOMAIN active_debates[i].rounds # {}
       /\ \A r \in DOMAIN active_debates[i].rounds :
             active_debates[i].rounds[r] # << >>

====
